---- MODULE Spec2Model ----
(***************************************************************************)
(* Model of the data-connectors repository.                                *)
(*                                                                         *)
(*  - SpecOrch: the standalone test runner (src/test-connector.cjs): the   *)
(*    orchestrator process, the pipes of the worker it spawns, and the     *)
(*    worker as an arbitrary writer of lines.                              *)
(*  - Spec: the connector scripts: each main flow as a control-flow table  *)
(*    keyed by source line, the page.* capability surface as an            *)
(*    environment that may answer or throw, and the pagination loops.      *)
(***************************************************************************)
EXTENDS Integers, Sequences, FiniteSets, TLC

(***************************************************************************)
(*                              Bounds                                     *)
(***************************************************************************)
\* Number of lines the worker may write to each of its output streams.
MaxLines == 3

(***************************************************************************)
(*                 Part I: the test runner (orchestrator)                  *)
(***************************************************************************)
VARIABLES
  child,        \* the spawned worker: "running" or "exited"
  childCode,    \* the code the child 'exit' event carries (NullCode: killed by a signal)
  stdoutBuf,    \* lines written to child.stdout, not yet delivered as 'line' events
  stderrBuf,    \* lines written to child.stderr, not yet delivered as 'line' events
  nWritten,     \* number of lines the worker has written (both streams)
  wroteResult,  \* data of the last well-formed result line the worker wrote (NoData: none)
  stdinRuns,    \* number of run commands written to child.stdin
  lastHandled,  \* the stream and line of the last 'line' event handled
  resultRef,    \* resultRef.data
  console,      \* what the last handled line printed: "none", "raw", "message", "runner"
  orch,         \* the orchestrator process: "running" or "exited"
  exitCode,     \* the code passed to process.exit (NoExit: still running)
  outFile       \* the data written to the output path (NoData: nothing written)

orchVars == <<child, childCode, stdoutBuf, stderrBuf, nWritten, wroteResult,
              stdinRuns, lastHandled, resultRef, console, orch, exitCode, outFile>>

\* The state of a connector script (Part II).
VARIABLES
  conn,       \* the connector script that runs
  pc,         \* source line of the next statement of the main flow (Done, Crashed)
  regs,       \* the numbers the main flow keeps (lengths of state.* lists, loop indices)
  lp,         \* locals of the pagination function in progress
  all,        \* its accumulator (all, allConversations, savedTracks, allItems, ...)
  seen,       \* its Set of admitted keys
  out,        \* conversations: the output list of the ChatGPT download loop
  lastMsg,    \* the last message sent to the host through setData / setProgress
  emitted,    \* parity of the number of messages sent so far
  nResult,    \* number of setData('result', ...) sent
  nError,     \* number of setData('error', ...) sent
  progCount,  \* per progress step: the last count sent with it (NoCount: none yet)
  progLabel,  \* per progress step: the label sent with it ("": none yet)
  result      \* the result object sent with setData('result', ...) (NoResult: none yet)

connVars == <<conn, pc, regs, lp, all, seen, out, lastMsg, emitted, nResult, nError,
              progCount, progLabel, result>>

vars == <<child, childCode, stdoutBuf, stderrBuf, nWritten, wroteResult, stdinRuns,
          lastHandled, resultRef, console, orch, exitCode, outFile,
          conn, pc, regs, lp, all, seen, out, lastMsg, emitted, nResult, nError,
          progCount, progLabel, result>>

\* JavaScript null / "not yet" markers.
NullCode == -1
NoExit == -2
NoData == 0

\* Payloads a result message may carry; NoData stands for a falsy payload (null).
ResultData == {NoData, 1, 2}

\* Exit codes of the worker: success, failure, or null when a signal killed it.
ChildCodes == {0, 1, NullCode}

\* The lines a worker may print. json: JSON.parse succeeds and yields an object;
\* blank: line.trim() is empty.
MsgTypes == {"ready", "status", "log", "data", "result", "error",
             "network-captured", "unknown"}

JsonLines == [json : {TRUE}, blank : {FALSE}, type : MsgTypes \ {"result"}, data : {NoData}]
               \cup [json : {TRUE}, blank : {FALSE}, type : {"result"}, data : ResultData]

TextLines == [json : {FALSE}, blank : BOOLEAN, type : {"text"}, data : {NoData}]

Lines == JsonLines \cup TextLines

NoLine == [stream |-> "none", line |-> [json |-> FALSE, blank |-> TRUE, type |-> "text", data |-> NoData]]

\* `code || 0` (test-connector.cjs:307): a falsy code (0 or null) gives 0.
OrZero(code) == IF code = NullCode \/ code = 0 THEN 0 ELSE code

\* handleMessage with a case 'error' that forgets the result received before.
handleMessageErrorClears(msg, ref) ==
  IF msg.type = "result" THEN msg.data
  ELSE IF msg.type = "error" THEN NoData
  ELSE ref

\* handleMessage(msg, resultRef) (test-connector.cjs:186-228): the new resultRef.data.
handleMessage(msg, ref) == IF msg.type = "result" THEN msg.data ELSE ref

\* What handleMessage prints for a message type.
handleMessagePrints(msg) == IF msg.type \in {"ready", "result"} THEN "none" ELSE "message"

InitOrch ==
  /\ child = "running"
  /\ childCode = NullCode
  /\ stdoutBuf = <<>>
  /\ stderrBuf = <<>>
  /\ nWritten = 0
  /\ wroteResult = NoData
  /\ stdinRuns = 0
  /\ lastHandled = NoLine
  /\ resultRef = NoData
  /\ console = "none"
  /\ orch = "running"
  /\ exitCode = NoExit
  /\ outFile = NoData

\* The worker prints a line on its protocol stream.
WorkerWritesStdout(line) ==
  /\ child = "running"
  /\ nWritten < MaxLines
  /\ stdoutBuf' = Append(stdoutBuf, line)
  /\ nWritten' = nWritten + 1
  /\ wroteResult' = IF line.json /\ line.type = "result" /\ line.data # NoData
                    THEN line.data ELSE wroteResult
  /\ UNCHANGED <<child, childCode, stderrBuf, stdinRuns, lastHandled, resultRef,
                 console, orch, exitCode, outFile>>
  /\ UNCHANGED connVars

\* The worker prints a line on its diagnostic stream.
WorkerWritesStderr(line) ==
  /\ child = "running"
  /\ nWritten < MaxLines
  /\ stderrBuf' = Append(stderrBuf, line)
  /\ nWritten' = nWritten + 1
  /\ UNCHANGED <<child, childCode, stdoutBuf, wroteResult, stdinRuns, lastHandled,
                 resultRef, console, orch, exitCode, outFile>>
  /\ UNCHANGED connVars

\* The worker process ends; what it wrote stays in the pipes.
WorkerExits(code) ==
  /\ child = "running"
  /\ child' = "exited"
  /\ childCode' = code
  /\ UNCHANGED <<stdoutBuf, stderrBuf, nWritten, wroteResult, stdinRuns, lastHandled,
                 resultRef, console, orch, exitCode, outFile>>
  /\ UNCHANGED connVars

\* The stdout handler with JSON.parse outside its try: a line that does not
\* parse throws out of the event handler and ends the orchestrator.
StdoutLineUnguarded ==
  /\ orch = "running"
  /\ stdoutBuf # <<>>
  /\ LET line == Head(stdoutBuf) IN
       /\ stdoutBuf' = Tail(stdoutBuf)
       /\ lastHandled' = [stream |-> "stdout", line |-> line]
       /\ IF line.json
            THEN /\ IF line.type = "ready"
                      THEN /\ stdinRuns' = stdinRuns + 1
                           /\ console' = "runner"
                           /\ UNCHANGED resultRef
                      ELSE /\ resultRef' = handleMessage(line, resultRef)
                           /\ console' = handleMessagePrints(line)
                           /\ UNCHANGED stdinRuns
                 /\ UNCHANGED <<orch, exitCode>>
            ELSE /\ console' = "none"
                 /\ orch' = "exited"
                 /\ exitCode' = 1
                 /\ UNCHANGED <<stdinRuns, resultRef>>
  /\ UNCHANGED <<child, childCode, stderrBuf, nWritten, wroteResult, outFile>>
  /\ UNCHANGED connVars

\* stdoutRL.on('line') (test-connector.cjs:269-295).
StdoutLine ==
  /\ orch = "running"
  /\ stdoutBuf # <<>>
  /\ LET line == Head(stdoutBuf) IN
       /\ stdoutBuf' = Tail(stdoutBuf)
       /\ lastHandled' = [stream |-> "stdout", line |-> line]
       /\ IF line.json
            THEN IF line.type = "ready"
                   THEN /\ stdinRuns' = stdinRuns + 1
                        /\ console' = "runner"
                        /\ UNCHANGED resultRef
                   ELSE /\ resultRef' = handleMessage(line, resultRef)
                        /\ console' = handleMessagePrints(line)
                        /\ UNCHANGED stdinRuns
            ELSE /\ console' = IF line.blank THEN "none" ELSE "raw"
                 /\ UNCHANGED <<stdinRuns, resultRef>>
  /\ UNCHANGED <<child, childCode, stderrBuf, nWritten, wroteResult, orch, exitCode, outFile>>
  /\ UNCHANGED connVars

\* The stderr handler given the body of the stdout handler: its lines are
\* parsed as protocol.
StderrLineParsed ==
  /\ orch = "running"
  /\ stderrBuf # <<>>
  /\ LET line == Head(stderrBuf) IN
       /\ stderrBuf' = Tail(stderrBuf)
       /\ lastHandled' = [stream |-> "stderr", line |-> line]
       /\ IF line.json
            THEN IF line.type = "ready"
                   THEN /\ stdinRuns' = stdinRuns + 1
                        /\ console' = "runner"
                        /\ UNCHANGED resultRef
                   ELSE /\ resultRef' = handleMessage(line, resultRef)
                        /\ console' = handleMessagePrints(line)
                        /\ UNCHANGED stdinRuns
            ELSE /\ console' = IF line.blank THEN "none" ELSE "raw"
                 /\ UNCHANGED <<stdinRuns, resultRef>>
  /\ UNCHANGED <<child, childCode, stdoutBuf, nWritten, wroteResult, orch, exitCode, outFile>>
  /\ UNCHANGED connVars

\* stderrRL.on('line') (test-connector.cjs:299-303).
StderrLine ==
  /\ orch = "running"
  /\ stderrBuf # <<>>
  /\ LET line == Head(stderrBuf) IN
       /\ stderrBuf' = Tail(stderrBuf)
       /\ lastHandled' = [stream |-> "stderr", line |-> line]
       /\ console' = IF line.blank THEN "none" ELSE "runner"
  /\ UNCHANGED <<child, childCode, stdoutBuf, nWritten, wroteResult, stdinRuns,
                 resultRef, orch, exitCode, outFile>>
  /\ UNCHANGED connVars

\* child.on('exit') and the rest of main (test-connector.cjs:306-332). Node emits
\* 'exit' when the process has ended; its stdio streams may still hold data, and
\* process.exit at the end of main discards whatever was not delivered.
ChildExit ==
  /\ orch = "running"
  /\ child = "exited"
  /\ outFile' = IF resultRef # NoData THEN resultRef ELSE outFile
  /\ exitCode' = OrZero(childCode)
  /\ orch' = "exited"
  /\ UNCHANGED <<child, childCode, stdoutBuf, stderrBuf, nWritten, wroteResult,
                 stdinRuns, lastHandled, resultRef, console>>
  /\ UNCHANGED connVars

NextOrch ==
  \/ \E line \in Lines : WorkerWritesStdout(line)
  \/ \E line \in Lines : WorkerWritesStderr(line)
  \/ \E code \in ChildCodes : WorkerExits(code)
  \/ StdoutLine
  \/ StderrLine
  \/ ChildExit

(***************************************************************************)
(*                    Part II: the connector scripts                       *)
(***************************************************************************)
\* The async main function has returned / has rejected with an uncaught exception.
Done == 0
Crashed == -1

\* A setProgress call without a count.
NoCount == -1

\* The largest step number any connector uses (YouTube: TOTAL_PHASES).
MaxStep == 8

Steps == 1..MaxStep

(***************************************************************************)
(* Messages to the host.                                                   *)
(***************************************************************************)
DataMsg(key) == [kind |-> "data", key |-> key, step |-> 0, total |-> 0,
                 label |-> "", count |-> NoCount]

ProgressMsg(step, total, label, count) ==
  [kind |-> "progress", key |-> "", step |-> step, total |-> total,
   label |-> label, count |-> count]

NoMsg == [kind |-> "none", key |-> "", step |-> 0, total |-> 0, label |-> "",
          count |-> NoCount]

(***************************************************************************)
(* The result object. A top-level key is kept as its dot-separated         *)
(* segments: 'x.posts' is <<"x", "posts">>, email is <<"email">>. A label   *)
(* is kept as its noun and its number: 'posts' is the plural of "post".    *)
(***************************************************************************)
Scope(source, category) == <<source, category>>

Plain(name) == <<name>>

Label(noun, plural) == [noun |-> noun, plural |-> plural]

\* n === 1 ? 'noun' : 'nouns'
Noun(noun, n) == Label(noun, n # 1)

Summary(count, label) == [count |-> count, label |-> label]

\* The top-level keys without timestamp.
ResultKeysUnstamped(c) ==
  {Plain("exportSummary"), Plain("version"), Plain("platform")}

\* The top-level keys of the object literal each connector builds.
ResultKeys(c) ==
  CASE c = "chatgpt" ->
         {Plain("email"), Plain("memories"), Plain("conversations"),
          Plain("exportSummary"), Plain("timestamp"), Plain("version"), Plain("platform")}
    [] c = "github" ->
         {Plain("profile"), Plain("repositories"), Plain("starred"),
          Plain("exportSummary"), Plain("timestamp"), Plain("version"), Plain("platform"),
          Plain("company"), Plain("exportedAt")}
    [] c = "github113" ->
         {Plain("profile"), Plain("repositories"), Plain("starred"),
          Plain("exportSummary"), Plain("timestamp"), Plain("version"), Plain("platform")}
    [] c = "x" ->
         {Scope("x", "profile"), Scope("x", "posts"),
          Plain("exportSummary"), Plain("timestamp"), Plain("version"), Plain("platform")}
    [] c = "shop" ->
         {Scope("shop", "orders"),
          Plain("exportSummary"), Plain("timestamp"), Plain("version"), Plain("platform")}
    [] c \in {"linkedin", "linkedinDom", "linkedinApi"} ->
         {Scope("linkedin", "profile"), Scope("linkedin", "experience"),
          Scope("linkedin", "education"), Scope("linkedin", "skills"),
          Scope("linkedin", "languages"),
          Plain("exportSummary"), Plain("timestamp"), Plain("version"), Plain("platform")}
    [] c = "spotify" ->
         {Plain("profile"), Plain("savedTracks"), Plain("playlists"),
          Plain("exportSummary"), Plain("timestamp"), Plain("version"), Plain("platform")}
    [] c = "youtube" ->
         {Scope("youtube", "profile"), Scope("youtube", "subscriptions"),
          Scope("youtube", "playlists"), Scope("youtube", "playlistItems"),
          Scope("youtube", "likes"), Scope("youtube", "watchLater"),
          Scope("youtube", "history"),
          Plain("exportSummary"), Plain("timestamp"), Plain("version"), Plain("platform")}
    [] OTHER -> {}

\* experiences.length + education.length + skills.length + languages.length
ProfileItems ==
  regs["experiences"] + regs["education"] + regs["skills"] + regs["languages"]

\* exportSummary.count and exportSummary.label of each connector; the YouTube
\* summary has no count.
ExportSummary(c) ==
  CASE c = "chatgpt" ->
         Summary(regs["conversations"], Noun("conversation", regs["conversations"]))
    [] c = "github" ->
         Summary(regs["repositories"] + regs["starred"], Label("item", TRUE))
    [] c = "github113" ->
         Summary(regs["repositories"] + regs["starred"],
                 Noun("item", regs["repositories"] + regs["starred"]))
    [] c = "x" -> Summary(regs["posts"], Noun("post", regs["posts"]))
    [] c = "shop" -> Summary(regs["orders"], Noun("order", regs["orders"]))
    [] c \in {"linkedin", "linkedinDom", "linkedinApi"} ->
         Summary(ProfileItems, Label("profile item", TRUE))
    [] c = "spotify" ->
         Summary(regs["savedTracks"], Noun("liked song", regs["savedTracks"]))
    [] c = "youtube" -> Summary(NoCount, Label("YouTube data export", FALSE))
    [] OTHER -> Summary(NoCount, Label("", FALSE))

NoResult == [keys |-> {}, exportSummary |-> Summary(NoCount, Label("", FALSE))]

\* const result = { ... }
Envelope(c) == [keys |-> ResultKeys(c), exportSummary |-> ExportSummary(c)]

\* page.setData / page.setProgress delivered message m to the host.
Emit(m) ==
  /\ lastMsg' = m
  /\ emitted' = 1 - emitted
  /\ nResult' = IF m.kind = "data" /\ m.key = "result" THEN nResult + 1 ELSE nResult
  /\ nError' = IF m.kind = "data" /\ m.key = "error" THEN nError + 1 ELSE nError
  /\ progCount' = IF m.kind = "progress" /\ m.count # NoCount
                  THEN [progCount EXCEPT ![m.step] = m.count] ELSE progCount
  /\ progLabel' = IF m.kind = "progress"
                  THEN [progLabel EXCEPT ![m.step] = m.label] ELSE progLabel
  /\ result' = IF m.kind = "data" /\ m.key = "result" THEN Envelope(conn) ELSE result

NoEmit == UNCHANGED <<lastMsg, emitted, nResult, nError, progCount, progLabel, result>>

(***************************************************************************)
(* Control-flow tables. A node is one awaited statement of a main flow,    *)
(* keyed by its source line:                                               *)
(*   data   page.setData(key, ...)                                         *)
(*   prog   page.setProgress({phase: {step, total, label}, count})         *)
(*   page   another page.* call (goto, evaluate, showBrowser, goHeadless,  *)
(*          promptUser)                                                    *)
(*   test   a helper whose answer decides a branch: truthy -> next,        *)
(*          falsy -> alt; note: the helper sends a status on failure;      *)
(*          catch # NoCatch: the helper lets exceptions escape             *)
(*   pick   a helper that returns a list whose length is stored in reg;    *)
(*          it swallows its exceptions unless catch # NoCatch              *)
(*   flag   a helper that swallows its exceptions and returns a value      *)
(*          stored in reg as 1 (truthy) or 0 (falsy)                       *)
(*   pos    branch: regs[reg] > 0 -> next, else alt                        *)
(*   for    loop head: regs[reg] < regs[lim] -> increment reg, next;       *)
(*          else alt                                                       *)
(*   loop   a call of a pagination function fn                             *)
(*   ret    return                                                         *)
(* catch is where an exception thrown by the statement continues: Crashed  *)
(* when no try block encloses it. page.sleep calls and helpers that        *)
(* neither answer nor send (dismissInterruptingDialogs) are left out.      *)
(***************************************************************************)
NoCatch == -2

Node(op, key, step, total, label, reg, lim, fn, note, next, alt, catch) ==
  [op |-> op, key |-> key, step |-> step, total |-> total, label |-> label,
   reg |-> reg, lim |-> lim, fn |-> fn, note |-> note, next |-> next,
   alt |-> alt, catch |-> catch]

SetDataNode(key, next, catch) ==
  Node("data", key, 0, 0, "", "zero", "zero", "", FALSE, next, next, catch)
SetProgressNode(step, total, label, reg, next, catch) ==
  Node("prog", "", step, total, label, reg, "zero", "", FALSE, next, next, catch)
PageNode(api, next, catch) ==
  Node("page", api, 0, 0, "", "zero", "zero", "", FALSE, next, next, catch)
TestNode(fn, note, next, alt, catch) ==
  Node("test", "", 0, 0, "", "zero", "zero", fn, note, next, alt, catch)
PickNode(fn, reg, next) ==
  Node("pick", "", 0, 0, "", reg, "zero", fn, FALSE, next, next, NoCatch)
PickOrThrowNode(fn, reg, next, catch) ==
  Node("pick", "", 0, 0, "", reg, "zero", fn, FALSE, next, next, catch)
FlagNode(fn, reg, next) ==
  Node("flag", "", 0, 0, "", reg, "zero", fn, FALSE, next, next, NoCatch)
PositiveNode(reg, next, alt) ==
  Node("pos", "", 0, 0, "", reg, "zero", "", FALSE, next, alt, NoCatch)
ForNode(reg, lim, next, alt) ==
  Node("for", "", 0, 0, "", reg, lim, "", FALSE, next, alt, NoCatch)
LoopNode(fn, step, total, label, reg, next, catch) ==
  Node("loop", "", step, total, label, reg, "zero", fn, FALSE, next, next, catch)
AllNode(fn, next) ==
  Node("all", "", 0, 0, "", "zero", "zero", fn, FALSE, next, next, NoCatch)
ReturnNode ==
  Node("ret", "", 0, 0, "", "zero", "zero", "", FALSE, Done, Done, NoCatch)

\* src/openai/chatgpt-playwright.js:317-526
ChatGPTFlow ==
     320 :> SetDataNode("status", 328, Crashed)
  @@ 328 :> TestNode("checkLoginStatus", FALSE, 362, 332, NoCatch)
  @@ 332 :> TestNode("checkLoginStatus", FALSE, 362, 337, NoCatch)
  @@ 337 :> PageNode("showBrowser", 338, Crashed)
  @@ 338 :> SetDataNode("status", 344, Crashed)
  @@ 344 :> TestNode("checkLoginStatus", FALSE, 357, 347, NoCatch)
  @@ 347 :> PageNode("promptUser", 357, Crashed)
  @@ 357 :> SetDataNode("status", 369, Crashed)
  @@ 362 :> SetDataNode("status", 369, Crashed)
  @@ 369 :> SetDataNode("status", 372, Crashed)
  @@ 372 :> TestNode("extractEmail", FALSE, 383, 378, NoCatch)
  @@ 378 :> SetDataNode("error", 379, Crashed)
  @@ 379 :> ReturnNode
  @@ 383 :> SetDataNode("email", 386, Crashed)
  @@ 386 :> TestNode("getAuthCredentials", FALSE, 396, 388, NoCatch)
  @@ 388 :> SetDataNode("error", 389, Crashed)
  @@ 389 :> ReturnNode
  @@ 396 :> SetDataNode("status", 397, Crashed)
  @@ 397 :> PageNode("goHeadless", 402, Crashed)
  @@ 402 :> SetProgressNode(1, 3, "Fetching memories", "none", 407, Crashed)
  @@ 407 :> PickNode("fetchMemories", "memories", 410)
  @@ 410 :> SetProgressNode(1, 3, "Fetching memories", "memories", 417, Crashed)
  @@ 417 :> SetProgressNode(2, 3, "Fetching conversation list", "zero", 423, Crashed)
  @@ 423 :> LoopNode("fetchConversationsList", 2, 3, "Fetching conversation list",
                     "conversationsList", 425, Crashed)
  @@ 425 :> SetProgressNode(2, 3, "Fetching conversation list", "conversationsList", 432, Crashed)
  @@ 432 :> SetProgressNode(3, 3, "Downloading conversations", "zero", 442, Crashed)
  @@ 442 :> LoopNode("fetchConversationBatch", 3, 3, "Downloading conversations",
                     "conversations", 488, Crashed)
  @@ 488 :> SetProgressNode(3, 3, "Downloading conversations", "conversations", 520, Crashed)
  @@ 520 :> SetDataNode("result", 521, Crashed)
  @@ 521 :> SetDataNode("status", 525, Crashed)
  @@ 525 :> ReturnNode

\* src/github/github-playwright.js:271-357
GitHubFlow ==
     272 :> SetDataNode("status", 273, Crashed)
  @@ 273 :> PageNode("goto", 276, Crashed)
  @@ 276 :> TestNode("checkLoginStatus", FALSE, 294, 279, NoCatch)
  @@ 279 :> PageNode("showBrowser", 280, Crashed)
  @@ 280 :> SetDataNode("status", 282, Crashed)
  @@ 282 :> PageNode("promptUser", 294, Crashed)
  @@ 294 :> SetDataNode("status", 295, Crashed)
  @@ 295 :> PageNode("goHeadless", 297, Crashed)
  @@ 297 :> SetProgressNode(1, 3, "Profile", "none", 302, Crashed)
  @@ 302 :> TestNode("resolveUsername", FALSE, 309, 304, Crashed)
  @@ 304 :> SetDataNode("error", 305, Crashed)
  @@ 305 :> ReturnNode
  @@ 309 :> SetProgressNode(1, 3, "Profile", "none", 314, Crashed)
  @@ 314 :> PageNode("goto", 316, Crashed)
  @@ 316 :> SetProgressNode(2, 3, "Repositories", "none", 321, Crashed)
  @@ 321 :> LoopNode("extractRepositories", 2, 3, "Repositories", "repositories", 326, Crashed)
  @@ 326 :> SetProgressNode(3, 3, "Starred", "none", 331, Crashed)
  @@ 331 :> LoopNode("extractStarred", 3, 3, "Starred", "starred", 350, Crashed)
  @@ 350 :> SetDataNode("result", 351, Crashed)
  @@ 351 :> SetDataNode("status", 356, Crashed)
  @@ 356 :> ReturnNode

\* src/unnamed/part_000:353-441, the GitHub connector 1.1.3. Its
\* extractRepositories (129-200) is the loop of github-playwright.js:117-193
\* and is one step here; its extractStarred (202-351) keeps every page call
\* inside its try block.
GitHub113Flow ==
     354 :> SetDataNode("status", 355, Crashed)
  @@ 355 :> PageNode("goto", 358, Crashed)
  @@ 358 :> TestNode("isLoggedIn", FALSE, 379, 361, NoCatch)
  @@ 361 :> PageNode("showBrowser", 363, Crashed)
  @@ 363 :> SetDataNode("status", 365, Crashed)
  @@ 365 :> PageNode("promptUser", 371, Crashed)
  @@ 371 :> TestNode("isLoggedIn", FALSE, 379, 375, NoCatch)
  @@ 375 :> SetDataNode("error", 376, Crashed)
  @@ 376 :> ReturnNode
  @@ 379 :> SetDataNode("status", 380, Crashed)
  @@ 380 :> PageNode("goHeadless", 382, Crashed)
  @@ 382 :> SetProgressNode(1, 3, "Profile", "none", 387, Crashed)
  @@ 387 :> Node("resolve", "", 0, 0, "", "username", "zero", "resolveUsername", FALSE,
                 394, 389, Crashed)
  @@ 389 :> SetDataNode("error", 390, Crashed)
  @@ 390 :> ReturnNode
  @@ 394 :> SetProgressNode(1, 3, "Profile", "none", 399, Crashed)
  @@ 399 :> PageNode("goto", 401, Crashed)
  @@ 401 :> SetProgressNode(2, 3, "Repositories", "none", 406, Crashed)
  @@ 406 :> PickOrThrowNode("extractRepositories", "repositories", 411, Crashed)
  @@ 411 :> SetProgressNode(3, 3, "Starred", "none", 416, Crashed)
  @@ 416 :> PickNode("extractStarred", "starred", 434)
  @@ 434 :> SetDataNode("result", 435, Crashed)
  @@ 435 :> SetDataNode("status", 440, Crashed)
  @@ 440 :> ReturnNode

\* src/x/x-playwright.js:383-483
XFlow ==
     384 :> SetDataNode("status", 385, Crashed)
  @@ 385 :> PageNode("goto", 388, Crashed)
  @@ 388 :> TestNode("isLoggedIn", FALSE, 409, 390, NoCatch)
  @@ 390 :> PageNode("showBrowser", 392, Crashed)
  @@ 392 :> SetDataNode("status", 394, Crashed)
  @@ 394 :> PageNode("promptUser", 401, Crashed)
  @@ 401 :> TestNode("isLoggedIn", FALSE, 409, 405, NoCatch)
  @@ 405 :> SetDataNode("error", 406, Crashed)
  @@ 406 :> ReturnNode
  @@ 409 :> SetDataNode("status", 411, Crashed)
  @@ 411 :> FlagNode("readLoggedInUsername", "username", 412)
  @@ 412 :> PositiveNode("username", 418, 413)
  @@ 413 :> PageNode("goto", 415, Crashed)
  @@ 415 :> FlagNode("readLoggedInUsername", "username", 418)
  @@ 418 :> SetProgressNode(1, 2, "Profile", "none", 423, Crashed)
  @@ 423 :> PositiveNode("username", 429, 424)
  @@ 424 :> SetDataNode("error", 425, Crashed)
  @@ 425 :> ReturnNode
  @@ 429 :> PageNode("goHeadless", 431, Crashed)
  @@ 431 :> SetProgressNode(1, 2, "Profile", "none", 435, Crashed)
  @@ 435 :> PageNode("goto", 437, Crashed)
  @@ 437 :> SetProgressNode(2, 2, "Posts", "none", 441, Crashed)
  @@ 441 :> LoopNode("extractPosts", 2, 2, "Posts", "posts", 443, Crashed)
  @@ 443 :> PositiveNode("posts", 479, 444)
  @@ 444 :> SetDataNode("status", 445, Crashed)
  @@ 445 :> PageNode("showBrowser", 447, Crashed)
  @@ 447 :> LoopNode("extractPosts", 2, 2, "Posts", "posts", 479, Crashed)
  @@ 479 :> SetDataNode("result", 480, Crashed)
  @@ 480 :> SetDataNode("status", 482, Crashed)
  @@ 482 :> ReturnNode

\* src/shopify/shop-playwright.js:312-413
ShopFlow ==
     316 :> SetDataNode("status", 317, Crashed)
  @@ 317 :> PageNode("goto", 320, Crashed)
  @@ 320 :> TestNode("checkLoginStatus", FALSE, 337, 323, NoCatch)
  @@ 323 :> PageNode("showBrowser", 324, Crashed)
  @@ 324 :> SetDataNode("status", 326, Crashed)
  @@ 326 :> PageNode("promptUser", 334, Crashed)
  @@ 334 :> SetDataNode("status", 341, Crashed)
  @@ 337 :> SetDataNode("status", 341, Crashed)
  @@ 341 :> PageNode("goHeadless", 343, Crashed)
  @@ 343 :> SetProgressNode(1, 3, "Loading orders", "none", 347, Crashed)
  @@ 347 :> PageNode("evaluate", 349, Crashed)
  @@ 349 :> SetProgressNode(2, 3, "Extracting orders", "none", 355, Crashed)
  @@ 355 :> PickNode("extractOrdersFromApollo", "orders", 356)
  @@ 356 :> PositiveNode("orders", 359, 375)
  @@ 359 :> LoopNode("orderPagination", 2, 3, "Extracting orders", "orders", 374, Crashed)
  @@ 374 :> PositiveNode("orders", 380, 375)
  @@ 375 :> PickNode("extractOrdersFromDOM", "orders", 380)
  @@ 380 :> SetProgressNode(3, 3, "Finalizing export", "orders", 402, Crashed)
  @@ 402 :> PositiveNode("orders", 403, 410)
  @@ 403 :> SetDataNode("result", 404, Crashed)
  @@ 404 :> SetDataNode("status", 408, Crashed)
  @@ 408 :> ReturnNode
  @@ 410 :> SetDataNode("error", 411, Crashed)
  @@ 411 :> ReturnNode

\* src/linkedin/linkedin-playwright.js:101-299; the lists mapped out of the
\* two API answers (210, 221, 232, 240) are picked where they are built.
LinkedInFlow ==
     105 :> SetDataNode("status", 108, Crashed)
  @@ 108 :> TestNode("checkLoginStatus", FALSE, 126, 111, NoCatch)
  @@ 111 :> PageNode("showBrowser", 112, Crashed)
  @@ 112 :> SetDataNode("status", 115, Crashed)
  @@ 115 :> PageNode("promptUser", 123, Crashed)
  @@ 123 :> SetDataNode("status", 130, Crashed)
  @@ 126 :> SetDataNode("status", 130, Crashed)
  @@ 130 :> PageNode("goHeadless", 133, Crashed)
  @@ 133 :> SetDataNode("status", 134, Crashed)
  @@ 134 :> PageNode("goto", 138, Crashed)
  @@ 138 :> SetProgressNode(1, 4, "Getting profile", "none", 143, Crashed)
  @@ 143 :> TestNode("fetchApi", FALSE, 150, 145, NoCatch)
  @@ 145 :> SetDataNode("error", 146, Crashed)
  @@ 146 :> ReturnNode
  @@ 150 :> TestNode("publicIdentifier", FALSE, 157, 151, NoCatch)
  @@ 151 :> SetDataNode("error", 152, Crashed)
  @@ 152 :> ReturnNode
  @@ 157 :> FlagNode("fullName", "fullName", 159)
  @@ 159 :> SetDataNode("status", 160, Crashed)
  @@ 160 :> SetProgressNode(1, 4, "Getting profile", "none", 166, Crashed)
  @@ 166 :> SetProgressNode(2, 4, "Fetching data", "none", 174, Crashed)
  @@ 174 :> AllNode("fetchApi", 186)
  @@ 186 :> SetProgressNode(3, 4, "Processing", "none", 210, Crashed)
  @@ 210 :> PickNode("positions", "experiences", 217)
  @@ 217 :> SetDataNode("status", 221, Crashed)
  @@ 221 :> PickNode("eduElements", "education", 228)
  @@ 228 :> SetDataNode("status", 232, Crashed)
  @@ 232 :> PickNode("skillElements", "skills", 236)
  @@ 236 :> SetDataNode("status", 240, Crashed)
  @@ 240 :> PickNode("langElements", "languages", 244)
  @@ 244 :> SetDataNode("status", 247, Crashed)
  @@ 247 :> SetProgressNode(4, 4, "Finalizing", "none", 291, Crashed)
  @@ 291 :> PositiveNode("fullName", 292, 296)
  @@ 292 :> SetDataNode("result", 293, Crashed)
  @@ 293 :> SetDataNode("status", 294, Crashed)
  @@ 294 :> ReturnNode
  @@ 296 :> SetDataNode("error", 297, Crashed)
  @@ 297 :> ReturnNode

\* src/x/x-playwright.js:1253-1419 (the LinkedIn connector that reads the DOM)
LinkedInDomFlow ==
     1257 :> SetDataNode("status", 1260, Crashed)
  @@ 1260 :> TestNode("checkLoginStatus", FALSE, 1278, 1263, NoCatch)
  @@ 1263 :> PageNode("showBrowser", 1264, Crashed)
  @@ 1264 :> SetDataNode("status", 1267, Crashed)
  @@ 1267 :> PageNode("promptUser", 1275, Crashed)
  @@ 1275 :> SetDataNode("status", 1282, Crashed)
  @@ 1278 :> SetDataNode("status", 1282, Crashed)
  @@ 1282 :> PageNode("goHeadless", 1285, Crashed)
  @@ 1285 :> SetDataNode("status", 1286, Crashed)
  @@ 1286 :> PageNode("goto", 1289, Crashed)
  @@ 1289 :> TestNode("getProfileUrl", FALSE, 1296, 1292, NoCatch)
  @@ 1292 :> SetDataNode("status", 1293, Crashed)
  @@ 1293 :> PageNode("goto", 1301, Crashed)
  @@ 1296 :> SetDataNode("status", 1297, Crashed)
  @@ 1297 :> PageNode("goto", 1301, Crashed)
  @@ 1301 :> PageNode("evaluate", 1306, Crashed)
  @@ 1306 :> SetProgressNode(1, 6, "Loading profile", "none", 1310, Crashed)
  @@ 1310 :> PageNode("evaluate", 1312, Crashed)
  @@ 1312 :> SetProgressNode(1, 6, "Loading profile", "none", 1316, Crashed)
  @@ 1316 :> FlagNode("extractHeroSection", "fullName", 1318)
  @@ 1318 :> PositiveNode("fullName", 1319, 1326)
  @@ 1319 :> SetProgressNode(1, 6, "Loading profile", "none", 1326, Crashed)
  @@ 1326 :> SetProgressNode(2, 6, "Extracting about", "none", 1333, Crashed)
  @@ 1333 :> LoopNode("navigateToDetailPage", 3, 6, "Extracting experience", "none", 1334, Crashed)
  @@ 1334 :> PickNode("extractExperiencesFromDetailPage", "experiences", 1335)
  @@ 1335 :> SetProgressNode(3, 6, "Extracting experience", "experiences", 1342, Crashed)
  @@ 1342 :> LoopNode("navigateToDetailPage", 4, 6, "Extracting education", "none", 1343, Crashed)
  @@ 1343 :> PickNode("extractEducationFromDetailPage", "education", 1344)
  @@ 1344 :> SetProgressNode(4, 6, "Extracting education", "education", 1351, Crashed)
  @@ 1351 :> LoopNode("navigateToDetailPage", 5, 6, "Extracting skills", "none", 1352, Crashed)
  @@ 1352 :> PickNode("extractSkillsFromDetailPage", "skills", 1353)
  @@ 1353 :> SetProgressNode(5, 6, "Extracting skills", "skills", 1360, Crashed)
  @@ 1360 :> LoopNode("navigateToDetailPage", 6, 6, "Extracting languages", "none", 1361, Crashed)
  @@ 1361 :> PickNode("extractLanguagesFromDetailPage", "languages", 1362)
  @@ 1362 :> SetProgressNode(6, 6, "Extracting languages", "languages", 1411, Crashed)
  @@ 1411 :> PositiveNode("fullName", 1412, 1416)
  @@ 1412 :> SetDataNode("result", 1413, Crashed)
  @@ 1413 :> SetDataNode("status", 1414, Crashed)
  @@ 1414 :> ReturnNode
  @@ 1416 :> SetDataNode("error", 1417, Crashed)
  @@ 1417 :> ReturnNode

\* src/unnamed/part_001:1517-1711, the LinkedIn connector that reads the
\* Voyager API data; the extract*FromDetailPage functions (1175-1490) are
\* entered at their first statement.
LinkedInApiFlow ==
     1521 :> SetDataNode("status", 1524, Crashed)
  @@ 1524 :> TestNode("checkLoginStatus", FALSE, 1542, 1527, NoCatch)
  @@ 1527 :> PageNode("showBrowser", 1528, Crashed)
  @@ 1528 :> SetDataNode("status", 1531, Crashed)
  @@ 1531 :> PageNode("promptUser", 1539, Crashed)
  @@ 1539 :> SetDataNode("status", 1546, Crashed)
  @@ 1542 :> SetDataNode("status", 1546, Crashed)
  @@ 1546 :> PageNode("goHeadless", 1549, Crashed)
  @@ 1549 :> SetDataNode("status", 1550, Crashed)
  @@ 1550 :> PageNode("goto", 1553, Crashed)
  @@ 1553 :> FlagNode("getProfileUrl", "profileUrl", 1556)
  @@ 1556 :> PageNode("captureNetwork", 1561, Crashed)
  @@ 1561 :> PositiveNode("profileUrl", 1566, 1562)
  @@ 1562 :> SetDataNode("status", 1563, Crashed)
  @@ 1563 :> PageNode("goto", 1571, Crashed)
  @@ 1566 :> SetDataNode("status", 1567, Crashed)
  @@ 1567 :> PageNode("goto", 1571, Crashed)
  @@ 1571 :> PageNode("evaluate", 1574, Crashed)
  @@ 1574 :> TestNode("includesInMe", FALSE, 1577, 1598, NoCatch)
  @@ 1577 :> PageNode("evaluate", 1578, Crashed)
  @@ 1578 :> TestNode("includesInMe", FALSE, 1582, 1598, NoCatch)
  @@ 1582 :> PageNode("evaluate", 1598, Crashed)
  @@ 1598 :> SetProgressNode(1, 6, "Loading profile", "none", 1602, Crashed)
  @@ 1602 :> PageNode("evaluate", 1604, Crashed)
  @@ 1604 :> SetProgressNode(1, 6, "Loading profile", "none", 1608, Crashed)
  @@ 1608 :> FlagNode("extractHeroSection", "fullName", 1610)
  @@ 1610 :> PositiveNode("fullName", 1611, 1618)
  @@ 1611 :> SetProgressNode(1, 6, "Loading profile", "none", 1618, Crashed)
  @@ 1618 :> SetProgressNode(2, 6, "Extracting about", "none", 1625, Crashed)
  @@ 1625 :> LoopNode("navigateToDetailPage", 3, 6, "Extracting experience", "none", 1177, Crashed)
  @@ 1177 :> LoopNode("extractDetailPageEntities", 0, 0, "", "none", 1178, 1627)
  @@ 1178 :> PickOrThrowNode("extractExperiencesFromDetailPage", "experiences", 1627, 1627)
  @@ 1627 :> SetProgressNode(3, 6, "Extracting experience", "experiences", 1634, Crashed)
  @@ 1634 :> LoopNode("navigateToDetailPage", 4, 6, "Extracting education", "none", 1267, Crashed)
  @@ 1267 :> LoopNode("extractDetailPageEntities", 0, 0, "", "none", 1268, 1636)
  @@ 1268 :> PickOrThrowNode("extractEducationFromDetailPage", "education", 1636, 1636)
  @@ 1636 :> SetProgressNode(4, 6, "Extracting education", "education", 1643, Crashed)
  @@ 1643 :> LoopNode("navigateToDetailPage", 5, 6, "Extracting skills", "none", 1352, Crashed)
  @@ 1352 :> LoopNode("extractDetailPageEntities", 0, 0, "", "none", 1353, 1645)
  @@ 1353 :> PickOrThrowNode("extractSkillsFromDetailPage", "skills", 1645, 1645)
  @@ 1645 :> SetProgressNode(5, 6, "Extracting skills", "skills", 1652, Crashed)
  @@ 1652 :> LoopNode("navigateToDetailPage", 6, 6, "Extracting languages", "none", 1424, Crashed)
  @@ 1424 :> LoopNode("extractDetailPageEntities", 0, 0, "", "none", 1425, 1654)
  @@ 1425 :> PickOrThrowNode("extractLanguagesFromDetailPage", "languages", 1654, 1654)
  @@ 1654 :> SetProgressNode(6, 6, "Extracting languages", "languages", 1703, Crashed)
  @@ 1703 :> PositiveNode("fullName", 1704, 1708)
  @@ 1704 :> SetDataNode("result", 1705, Crashed)
  @@ 1705 :> SetDataNode("status", 1706, Crashed)
  @@ 1706 :> ReturnNode
  @@ 1708 :> SetDataNode("error", 1709, Crashed)
  @@ 1709 :> ReturnNode

\* src/spotify/spotify-playwright.js:312-587
SpotifyFlow ==
     314 :> SetDataNode("status", 317, Crashed)
  @@ 317 :> TestNode("getAccessToken", TRUE, 347, 320, NoCatch)
  @@ 320 :> PageNode("showBrowser", 321, Crashed)
  @@ 321 :> SetDataNode("status", 328, Crashed)
  @@ 328 :> PageNode("promptUser", 334, Crashed)
  @@ 334 :> SetDataNode("status", 337, Crashed)
  @@ 337 :> PageNode("goto", 340, Crashed)
  @@ 340 :> TestNode("getAccessToken", TRUE, 353, 343, NoCatch)
  @@ 343 :> SetDataNode("error", 344, Crashed)
  @@ 344 :> ReturnNode
  @@ 347 :> SetDataNode("status", 353, Crashed)
  @@ 353 :> SetDataNode("status", 354, Crashed)
  @@ 354 :> TestNode("getClientToken", FALSE, 361, 356, NoCatch)
  @@ 356 :> SetDataNode("error", 357, Crashed)
  @@ 357 :> ReturnNode
  @@ 361 :> PageNode("goHeadless", 366, Crashed)
  @@ 366 :> PageNode("goto", 372, Crashed)
  @@ 372 :> SetDataNode("status", 373, Crashed)
  @@ 373 :> ForNode("attempt", "three", 374, 378)
  @@ 374 :> TestNode("extractQueryHashes", TRUE, 386, 373, NoCatch)
  @@ 378 :> TestNode("queryHashes", FALSE, 386, 379, NoCatch)
  @@ 379 :> SetDataNode("error", 380, Crashed)
  @@ 380 :> ReturnNode
  @@ 386 :> SetProgressNode(1, 3, "Fetching profile", "none", 392, Crashed)
  @@ 392 :> PageNode("evaluate", 395, Crashed)
  @@ 395 :> TestNode("gqlFetch", TRUE, 398, 398, Crashed)
  @@ 398 :> TestNode("profile", FALSE, 412, 399, NoCatch)
  @@ 399 :> SetDataNode("error", 400, Crashed)
  @@ 400 :> ReturnNode
  @@ 412 :> SetDataNode("status", 415, Crashed)
  @@ 415 :> SetProgressNode(2, 3, "Fetching liked songs", "zero", 425, Crashed)
  @@ 425 :> LoopNode("fetchLibraryTracks", 2, 3, "Fetching liked songs", "savedTracks", 466, Crashed)
  @@ 466 :> SetProgressNode(3, 3, "Fetching playlists", "zero", 473, Crashed)
  @@ 473 :> TestNode("gqlFetch", TRUE, 481, 481, Crashed)
  @@ 481 :> PickNode("playlistUris", "playlistUris", 488)
  @@ 488 :> ForNode("i", "playlistUris", 490, 580)
  @@ 490 :> TestNode("uri", FALSE, 492, 488, NoCatch)
  @@ 492 :> SetProgressNode(3, 3, "Fetching playlists", "i", 503, Crashed)
  @@ 503 :> LoopNode("fetchPlaylist", 0, 0, "", "playlists", 488, Crashed)
  @@ 580 :> SetDataNode("result", 581, Crashed)
  @@ 581 :> SetDataNode("status", 586, Crashed)
  @@ 586 :> ReturnNode

\* src/google/youtube-playwright.js:789-1071; the main flow is one try block whose
\* catch is line 1068. playlistsToProcess is state.playlists: fewer than
\* MAX_PLAYLISTS playlists are followed here.
YouTubeFlow ==
     794 :> SetDataNode("status", 795, 1068)
  @@ 795 :> PageNode("goto", 798, 1068)
  @@ 798 :> TestNode("checkLoginStatus", FALSE, 814, 801, NoCatch)
  @@ 801 :> PageNode("showBrowser", 804, 1068)
  @@ 804 :> PageNode("promptUser", 810, 1068)
  @@ 810 :> FlagNode("checkLoginStatus", "isLoggedIn", 811)
  @@ 811 :> SetDataNode("status", 812, 1068)
  @@ 812 :> PageNode("goHeadless", 817, 1068)
  @@ 814 :> SetDataNode("status", 823, 1068)
  @@ 817 :> PositiveNode("isLoggedIn", 823, 818)
  @@ 818 :> SetDataNode("error", 819, 1068)
  @@ 819 :> ReturnNode
  @@ 823 :> SetProgressNode(1, 8, "Extracting account info", "none", 829, 1068)
  @@ 829 :> SetDataNode("status", 831, 1068)
  @@ 831 :> SetProgressNode(1, 8, "Extracting account info", "none", 837, 1068)
  @@ 837 :> SetProgressNode(2, 8, "Fetching channel profile", "none", 843, 1068)
  @@ 843 :> PageNode("evaluate", 868, 868)
  @@ 868 :> SetDataNode("profile", 869, 1068)
  @@ 869 :> SetProgressNode(2, 8, "Fetching channel profile", "none", 875, 1068)
  @@ 875 :> SetProgressNode(3, 8, "Fetching subscriptions", "none", 881, 1068)
  @@ 881 :> PickNode("scrapeSubscriptions", "subscriptions", 886)
  @@ 886 :> SetDataNode("subscriptions", 887, 1068)
  @@ 887 :> SetProgressNode(3, 8, "Fetching subscriptions", "subscriptions", 894, 1068)
  @@ 894 :> SetProgressNode(4, 8, "Fetching playlists", "none", 900, 1068)
  @@ 900 :> PickNode("scrapePlaylists", "playlists", 905)
  @@ 905 :> SetDataNode("playlists", 906, 1068)
  @@ 906 :> SetProgressNode(4, 8, "Fetching playlists", "playlists", 913, 1068)
  @@ 913 :> SetProgressNode(5, 8, "Fetching playlist items", "none", 919, 1068)
  @@ 919 :> ForNode("i", "playlists", 921, 943)
  @@ 921 :> TestNode("playlist.url", FALSE, 923, 919, NoCatch)
  @@ 923 :> SetProgressNode(5, 8, "Fetching playlist items", "i", 930, 1068)
  @@ 930 :> LoopNode("scrapePlaylistPage", 0, 0, "", "none", 919, 919)
  @@ 943 :> SetProgressNode(6, 8, "Fetching liked videos", "none", 949, 1068)
  @@ 949 :> LoopNode("scrapePlaylistPage", 0, 0, "", "likes", 958, 955)
  @@ 955 :> SetDataNode("warning", 958, 1068)
  @@ 958 :> SetDataNode("likes", 959, 1068)
  @@ 959 :> SetProgressNode(6, 8, "Fetching liked videos", "likes", 966, 1068)
  @@ 966 :> SetProgressNode(7, 8, "Fetching watch later", "none", 972, 1068)
  @@ 972 :> LoopNode("scrapePlaylistPage", 0, 0, "", "watchLater", 981, 978)
  @@ 978 :> SetDataNode("warning", 981, 1068)
  @@ 981 :> SetDataNode("watchLater", 982, 1068)
  @@ 982 :> SetProgressNode(7, 8, "Fetching watch later", "watchLater", 989, 1068)
  @@ 989 :> SetProgressNode(8, 8, "Fetching watch history", "none", 995, 1068)
  @@ 995 :> PickOrThrowNode("scrapeHistory", "history", 1001, 998)
  @@ 998 :> SetDataNode("warning", 1001, 1068)
  @@ 1001 :> SetDataNode("history", 1002, 1068)
  @@ 1002 :> SetProgressNode(8, 8, "Fetching watch history", "history", 1055, 1068)
  @@ 1055 :> SetDataNode("result", 1056, 1068)
  @@ 1056 :> SetDataNode("status", 1065, 1068)
  @@ 1065 :> ReturnNode
  @@ 1068 :> SetDataNode("error", 1069, Crashed)
  @@ 1069 :> ReturnNode

(***************************************************************************)
(* Registers and loop locals.                                              *)
(***************************************************************************)
\* The longest list a helper outside the pagination loops returns.
MaxCount == 2

RegNames == {"zero", "none", "i", "memories", "conversationsList", "conversations",
             "repositories", "starred", "username", "posts", "orders",
             "fullName", "experiences", "education", "skills", "languages",
             "three", "attempt", "savedTracks", "playlistUris", "playlists",
             "isLoggedIn", "subscriptions", "likes", "watchLater", "history",
             "profileUrl",
             "restored", "shown", "headless", "unresolved", "failed", "visited"}

\* Every number starts at 0; three is the constant 3 of "attempt < 3".
\* The last five only observe the run: restored is 1 once the login check made
\* before any page.showBrowser answered true; shown is 1 once page.showBrowser
\* was called and 2 once a status was sent after it; headless is 1 once
\* page.goHeadless was called; unresolved is 1 once an identity check failed;
\* failed is 1 when a collection phase has just failed and the run goes on,
\* 0 again if the next message is a warning, and 2 for good if it is not.
NoRegs == [r \in RegNames |-> IF r = "three" THEN 3 ELSE 0]

\* count: of a setProgress call that reads register reg.
CountOf(reg) == IF reg = "none" THEN NoCount ELSE regs[reg]

\* No pagination function is running.
NoLoop == [fn |-> "none", i |-> 0, stag |-> 0, fetches |-> 0, note |-> FALSE,
           skipped |-> FALSE, after |-> FALSE, tried |-> <<>>, results |-> <<>>,
           raced |-> FALSE, eod |-> FALSE, page |-> <<>>, refuted |-> {}]

\* fn: the function; i: its loop variable (pageIndex, offset, scroll, ...);
\* stag: its count of passes without new items; note: a flag it keeps
\* (lastVisibleError, playlistMeta, a fetch that failed); after: its loop is
\* over.
\* fetches counts the pages it asked for, and skipped tells whether its last
\* pass met a key it had seen; tried lists the extraction strategies it has
\* invoked, each with what it yielded: these three only observe.
\* results: the array Promise.all is filling for the batch of fetches in
\* flight, empty when there is none; raced observes that one of its fetches
\* settled before an earlier one of the latest batch; eod observes that the
\* answer the loop last tested for the end of the data signalled it, and page
\* keeps the items of that answer when it was the first; refuted observes
\* which sizes of an unchanging conversation list the answers so far rule out.
StartLoop(fn, i) == [fn |-> fn, i |-> i, stag |-> 0, fetches |-> 0, note |-> FALSE,
                     skipped |-> FALSE, after |-> FALSE, tried |-> <<>>,
                     results |-> <<>>, raced |-> FALSE, eod |-> FALSE, page |-> <<>>,
                     refuted |-> {}]

Connectors == {"chatgpt", "github", "github113", "linkedin", "linkedinDom", "linkedinApi", "shop",
               "spotify", "x",
               "youtube"}

Flow == [c \in Connectors |->
          CASE c = "chatgpt" -> ChatGPTFlow
            [] c = "github" -> GitHubFlow
            [] c = "github113" -> GitHub113Flow
            [] c = "linkedin" -> LinkedInFlow
            [] c = "linkedinDom" -> LinkedInDomFlow
            [] c = "linkedinApi" -> LinkedInApiFlow
            [] c = "shop" -> ShopFlow
            [] c = "spotify" -> SpotifyFlow
            [] c = "x" -> XFlow
            [] c = "youtube" -> YouTubeFlow]

\* The first statement of each main flow.
Entry == [c \in Connectors |->
           CASE c = "chatgpt" -> 320
             [] c = "github" -> 272
             [] c = "github113" -> 354
             [] c = "linkedin" -> 105
             [] c = "linkedinDom" -> 1257
             [] c = "linkedinApi" -> 1521
             [] c = "shop" -> 316
             [] c = "spotify" -> 314
             [] c = "x" -> 384
             [] c = "youtube" -> 794]

Running == pc \notin {Done, Crashed}

node == Flow[conn][pc]

\* An exception raised by the statement at pc: control continues at the
\* enclosing catch block, or the main promise rejects.
Raise(n) ==
  /\ n.catch # NoCatch
  /\ pc' = n.catch

(***************************************************************************)
(* One action per kind of statement.                                       *)
(***************************************************************************)
\* What a message sent with key (setProgress: "") leaves behind for the
\* observers.
Told(key) ==
  [regs EXCEPT !["shown"] = IF key = "status" /\ @ = 1 THEN 2 ELSE @,
               !["failed"] = CASE @ = 1 /\ key = "warning" -> 0
                               [] @ = 1 -> 2
                               [] OTHER -> @]

SetData ==
  /\ Running /\ node.op = "data"
  /\ \/ /\ Emit(DataMsg(node.key))
        /\ pc' = node.next
        /\ regs' = Told(node.key)
     \/ /\ Raise(node)
        /\ NoEmit
        /\ UNCHANGED regs
  /\ UNCHANGED <<conn, lp, all, seen, out>>
  /\ UNCHANGED orchVars

SetProgress ==
  /\ Running /\ node.op = "prog"
  /\ \/ /\ Emit(ProgressMsg(node.step, node.total, node.label, CountOf(node.reg)))
        /\ pc' = node.next
        /\ regs' = Told("")
     \/ /\ Raise(node)
        /\ NoEmit
        /\ UNCHANGED regs
  /\ UNCHANGED <<conn, lp, all, seen, out>>
  /\ UNCHANGED orchVars

\* What a page.* call leaves behind for the observers.
Called(api) ==
  CASE api = "showBrowser" -> [regs EXCEPT !["shown"] = 1]
    [] api = "goHeadless" -> [regs EXCEPT !["headless"] = 1]
    [] OTHER -> regs

\* What the meta tag user-login of the page may hold, as the characters of
\* its content; the number of a name stands for it in regs, and 0 for null.
Names == << <<>>, <<"a", "-", "0">>, <<"Z">>, <<"a", "/", "b">>, <<".", ".">> >>

NoName == 0

\* [a-zA-Z0-9-] (src/unnamed/part_000:18), over the characters of Names
UsernameChars == {"a", "Z", "0", "-"}

\* isValidGitHubUsername without its pattern: any string that is not empty.
isValidGitHubUsernameNonEmpty(value) ==
  /\ value # NoName
  /\ Len(Names[value]) > 0

\* src/unnamed/part_000:20-23
isValidGitHubUsername(value) ==
  /\ value # NoName
  /\ Len(Names[value]) > 0
  /\ \A k \in DOMAIN Names[value] : Names[value][k] \in UsernameChars

\* src/unnamed/part_000:61-73: return username || null
readLoggedInUsername(content) ==
  IF content = NoName \/ Names[content] = <<>> THEN NoName ELSE content

\* src/unnamed/part_000:75-84, given what the two pages show
resolveUsername(current, fromSettings) ==
  IF isValidGitHubUsername(current) THEN current
  ELSE IF isValidGitHubUsername(fromSettings) THEN fromSettings
  ELSE NoName

\* The statements of the main flow that call a helper which navigates to a URL
\* built from the username: extractProfile, extractRepositories, extractStarred
\* (src/unnamed/part_000:399, 406, 416).
UsernameUrls == [c \in Connectors |-> IF c = "github113" THEN {399, 406, 416} ELSE {}]

\* if (!isValidGitHubUsername(username)) return ...: the helper called at pc
\* returns before its page.goto (src/unnamed/part_000:87, 130, 203).
Refused == pc \in UsernameUrls[conn] /\ ~isValidGitHubUsername(regs["username"])

\* The registers r once the helper called at pc has navigated.
Visited(r) == IF pc \in UsernameUrls[conn] THEN [r EXCEPT !["visited"] = 1] ELSE r

PageCall ==
  /\ Running /\ node.op = "page"
  /\ \/ /\ pc' = node.next
        /\ regs' = IF Refused THEN regs ELSE Visited(Called(node.key))
     \/ /\ ~Refused
        /\ Raise(node)
        /\ regs' = Visited(regs)
  /\ NoEmit
  /\ UNCHANGED <<conn, lp, all, seen, out>>
  /\ UNCHANGED orchVars

\* The helpers that tell whether the session is logged in.
LoginChecks == {"checkLoginStatus", "isLoggedIn", "getAccessToken"}

\* The tests of a resolved identity or credential: if (!email),
\* if (!userToken || !deviceId), if (!username), if (!accessToken),
\* if (!clientToken), by connector and line.
IdentityDecisions == [c \in Connectors |->
                       CASE c = "chatgpt" -> {372, 386}
                         [] c = "github" -> {302}
                         [] c = "github113" -> {387}
                         [] c = "x" -> {423}
                         [] c = "spotify" -> {340, 354}
                         [] OTHER -> {}]

\* if (!answer) { alt } else { next }, taken the wrong way round.
BranchInverted(n, answer) == IF answer THEN n.alt ELSE n.next

\* if (!answer) { alt } else { next }
Branch(n, answer) == IF answer THEN n.next ELSE n.alt

\* What the answer of the test at pc leaves behind for the observers.
Answered(answer) ==
  [regs EXCEPT !["restored"] = IF node.op = "test" /\ node.fn \in LoginChecks
                                   /\ regs["shown"] = 0 /\ answer
                                THEN 1 ELSE @,
               !["unresolved"] = IF pc \in IdentityDecisions[conn] /\ ~answer
                                  THEN 1 ELSE @]

\* src/unnamed/part_000:387-388: const username = await resolveUsername();
\* if (!isValidGitHubUsername(username)) ...
ResolveUsername ==
  /\ Running /\ node.op = "resolve"
  /\ \/ \E first, second \in 0..Len(Names) :
          LET username == resolveUsername(readLoggedInUsername(first),
                                          readLoggedInUsername(second))
              answer == isValidGitHubUsername(username)
          IN /\ pc' = Branch(node, answer)
             /\ regs' = [regs EXCEPT ![node.reg] = username,
                                     !["unresolved"] = IF ~answer THEN 1 ELSE @]
     \/ /\ Raise(node)
        /\ UNCHANGED regs
  /\ NoEmit
  /\ UNCHANGED <<conn, lp, all, seen, out>>
  /\ UNCHANGED orchVars

\* What the page.evaluate of a login helper may do: resolve to a truthy or a
\* falsy value, or reject. The other tests read a value the flow holds.
Evaluations(fn) ==
  IF fn \in LoginChecks THEN {"true", "false", "throws"} ELSE {"true", "false"}

\* A login helper without its try block: the rejection of page.evaluate leaves
\* the helper.
CheckLoginUnguarded(evaluation) == evaluation

\* try { return await page.evaluate(...) } catch { return false }: what the
\* helper gives its caller (src/openai/chatgpt-playwright.js:124-148,
\* src/x/x-playwright.js:42-58 and the like).
CheckLogin(evaluation) == IF evaluation = "throws" THEN "false" ELSE evaluation

\* Where an exception the statement n lets through continues.
Uncaught(n) == IF n.catch # NoCatch THEN n.catch ELSE Crashed

Test ==
  /\ Running /\ node.op = "test"
  /\ \/ \E evaluation \in Evaluations(node.fn) :
          LET answer == CheckLogin(evaluation) = "true" IN
            IF CheckLogin(evaluation) = "throws"
            THEN /\ pc' = Uncaught(node)
                 /\ NoEmit
                 /\ UNCHANGED regs
            ELSE /\ pc' = Branch(node, answer)
                 /\ regs' = Answered(answer)
                 /\ IF node.note /\ ~answer
                    THEN \/ Emit(DataMsg("status"))
                         \/ NoEmit
                    ELSE NoEmit
     \/ /\ Raise(node)
        /\ NoEmit
        /\ UNCHANGED regs
  /\ UNCHANGED <<conn, lp, all, seen, out>>
  /\ UNCHANGED orchVars

\* The collection helpers whose failure the main flow survives: the YouTube
\* phases inside their own try block, and the ChatGPT fetches that answer
\* with an empty or a shorter list.
Tolerated == {"scrapeSubscriptions", "scrapePlaylists", "scrapePlaylistPage",
              "scrapeHistory", "fetchMemories", "fetchConversationsList"}

\* The registers r after helper fn failed.
FailedIn(r, fn) ==
  IF fn \in Tolerated THEN [r EXCEPT !["failed"] = IF @ = 2 THEN 2 ELSE 1] ELSE r

Pick ==
  /\ Running /\ node.op \in {"pick", "flag"}
  /\ \/ /\ \E n \in 0..(IF Refused THEN 0 ELSE IF node.op = "flag" THEN 1 ELSE MaxCount) :
             regs' = IF Refused THEN [regs EXCEPT ![node.reg] = n]
                     ELSE Visited([regs EXCEPT ![node.reg] = n])
        /\ pc' = node.next
     \/ /\ ~Refused
        /\ Raise(node)
        /\ regs' = Visited(FailedIn(regs, node.fn))
     \/ /\ node.catch = NoCatch /\ node.fn \in Tolerated
        /\ regs' = FailedIn([regs EXCEPT ![node.reg] = 0], node.fn)
        /\ pc' = node.next
  /\ NoEmit
  /\ UNCHANGED <<conn, lp, all, seen, out>>
  /\ UNCHANGED orchVars

\* The branch of Positive taken the other way round.
PositiveNegated ==
  /\ Running /\ node.op = "pos"
  /\ pc' = IF regs[node.reg] > 0 THEN node.alt ELSE node.next
  /\ regs' = Answered(regs[node.reg] > 0)
  /\ NoEmit
  /\ UNCHANGED <<conn, lp, all, seen, out>>
  /\ UNCHANGED orchVars

\* if (list.length === 0) / if (value): the branch on a number kept in regs.
Positive ==
  /\ Running /\ node.op = "pos"
  /\ pc' = Branch(node, regs[node.reg] > 0)
  /\ regs' = Answered(regs[node.reg] > 0)
  /\ NoEmit
  /\ UNCHANGED <<conn, lp, all, seen, out>>
  /\ UNCHANGED orchVars

For ==
  /\ Running /\ node.op = "for"
  /\ IF regs[node.reg] < regs[node.lim]
     THEN /\ regs' = [regs EXCEPT ![node.reg] = @ + 1]
          /\ pc' = node.next
     ELSE /\ regs' = [regs EXCEPT ![node.reg] = 0]
          /\ pc' = node.alt
  /\ NoEmit
  /\ UNCHANGED <<conn, lp, all, seen, out>>
  /\ UNCHANGED orchVars

Return ==
  /\ Running /\ node.op = "ret"
  /\ pc' = Done
  /\ NoEmit
  /\ UNCHANGED <<conn, regs, lp, all, seen, out>>
  /\ UNCHANGED orchVars

\* The loop of pagination function fn is running.
InLoop(fn) == Running /\ node.op = "loop" /\ node.fn = fn /\ lp.fn = fn /\ ~lp.after

\* The loop is over; the function is about to return.
EndLoop ==
  /\ lp' = [lp EXCEPT !.after = TRUE]
  /\ UNCHANGED <<pc, regs>>

\* The same after a pass that asked for one more page.
EndLoopFetched(skipped) ==
  /\ lp' = [lp EXCEPT !.after = TRUE, !.fetches = @ + 1, !.skipped = skipped]
  /\ UNCHANGED <<pc, regs>>

\* The next pass, with the loop variable advanced by step.
NextPass(step, skipped) ==
  /\ lp' = [lp EXCEPT !.i = @ + step, !.fetches = @ + 1, !.skipped = skipped]
  /\ UNCHANGED <<pc, regs>>

\* l after the loop has tested an answer with these items, which did or did
\* not signal the end of the data.
Saw(l, signal, items) ==
  [l EXCEPT !.eod = signal, !.page = IF signal /\ l.fetches = 1 THEN items ELSE <<>>]

\* EndLoopFetched and NextPass after such an answer.
EndLoopSaw(skipped, signal, items) ==
  /\ lp' = Saw([lp EXCEPT !.after = TRUE, !.fetches = @ + 1, !.skipped = skipped],
               signal, items)
  /\ UNCHANGED <<pc, regs>>

NextPassSaw(step, skipped, signal, items) ==
  /\ lp' = Saw([lp EXCEPT !.i = @ + step, !.fetches = @ + 1, !.skipped = skipped],
               signal, items)
  /\ UNCHANGED <<pc, regs>>

(***************************************************************************)
(* Pagination loops. One action is one iteration; what the page or the     *)
(* server answers is chosen by the environment.                            *)
(***************************************************************************)
\* Horizon: the number of fetches followed in a loop the code does not cap.
MaxFetches == 2

\* Only the first MaxFaults download batches of a run may come back incomplete
\* or settle their fetches out of request order.
MaxFaults == 1

\* A field the server left out of its answer (undefined).
Undef == -1

RangeSeq(start, n) == [k \in 1..n |-> start + k - 1]

Min(a, b) == IF a < b THEN a ELSE b

\* JavaScript n >= total, false when total is undefined.
AtLeast(n, total) == total # Undef /\ n >= total

\* JavaScript total || 0
OrElseZero(total) == IF total = Undef THEN 0 ELSE total

Keys(s) == {s[k] : k \in DOMAIN s}

NoDuplicates(s) == Cardinality(Keys(s)) = Len(s)

\* Loops whose accumulator is a list other than all.
KeepsAll == {"fetchConversationBatch"}

\* Functions that navigate or evaluate before their loop, outside any try.
HasProlog == {"extractPosts", "navigateToDetailPage", "scrapePlaylistPage"}

\* Functions that try strategies one after the other.
TieredExtractors == {"extractDetailPageEntities"}

\* The pagination functions of the GitHub connector.
GitHubLoops == {"extractRepositories", "extractStarred"}

\* The initial value of the loop variable: pageIndex = 1, offset = 0, ...
FirstIndex(fn) == IF fn \in GitHubLoops \cup TieredExtractors THEN 1 ELSE 0

\* Functions that send the step's progress before their loop.
AnnouncesStep == {"navigateToDetailPage"}

EnterLoop ==
  /\ Running /\ node.op = "loop" /\ lp.fn = "none"
  /\ \/ /\ lp' = StartLoop(node.fn, FirstIndex(node.fn))
        /\ all' = IF node.fn \in KeepsAll THEN all ELSE <<>>
        /\ out' = IF node.fn \in KeepsAll THEN <<>> ELSE out
        /\ seen' = {}
        /\ IF node.fn \in AnnouncesStep
           THEN Emit(ProgressMsg(node.step, node.total, node.label, NoCount))
           ELSE NoEmit
        /\ UNCHANGED <<pc, regs>>
     \/ /\ node.fn \in HasProlog
        /\ Raise(node)
        /\ regs' = FailedIn(regs, node.fn)
        /\ \/ NoEmit
           \/ /\ node.fn \in AnnouncesStep
              /\ Emit(ProgressMsg(node.step, node.total, node.label, NoCount))
        /\ UNCHANGED <<lp, all, seen, out>>
  /\ UNCHANGED conn
  /\ UNCHANGED orchVars

RaiseFromLoop ==
  /\ Raise(node)
  /\ lp' = NoLoop
  /\ NoEmit
  /\ regs' = FailedIn(regs, lp.fn)

\* src/openai/chatgpt-playwright.js:186
limit == 100

ShortPageIgnored(n) == FALSE

\* items.length < limit (src/openai/chatgpt-playwright.js:229,
\* src/spotify/spotify-playwright.js:461 and 540)
ShortPage(n) == n < limit

\* What one page of the conversation list may hold: nothing, a short page,
\* a full page.
PageSizes == {0, 1, limit}

\* data.total of an answer.
Totals == {Undef, 0, limit, 3 * limit}

\* Conversations updated between two fetches move to the front of the
\* server's list (order=updated) and push the others down by that many places.
Shifts == {0, 1}

\* The sizes an unchanging conversation list may have.
Sources == Totals \ {Undef}

\* What a list of size conversations that does not change answers to a request
\* at offset: the next limit conversations at most, with total = size.
Unchanging(size, offset, n, total, shift) ==
  /\ shift = 0
  /\ total = size
  /\ n = IF size > offset THEN Min(limit, size - offset) ELSE 0

NextOffsetOverlapping(offset) == offset + limit - 1

\* offset += limit (src/openai/chatgpt-playwright.js:230)
NextOffset(offset) == offset + limit

\* src/openai/chatgpt-playwright.js:183-234, one pass of while (true)
FetchConversationsList ==
  /\ InLoop("fetchConversationsList")
  /\ lp.fetches < MaxFetches
  /\ \/ /\ RaiseFromLoop
        /\ UNCHANGED all
     \/ /\ all' = all                      \* if (!result?.success) break
        /\ lp' = [lp EXCEPT !.after = TRUE, !.fetches = @ + 1, !.note = TRUE,
                            !.refuted = Sources]
        /\ UNCHANGED <<pc, regs>>
        /\ NoEmit
     \/ \E n \in PageSizes, total \in Totals, shift \in Shifts :
          LET items == RangeSeq(lp.i + 1 - shift, n)
              heard == [lp EXCEPT !.fetches = @ + 1, !.skipped = FALSE,
                                  !.refuted = @ \cup {size \in Sources :
                                      ~Unchanging(size, lp.i, n, total, shift)}]
          IN
            /\ shift <= lp.i
            /\ all' = all \o items
            /\ \/ RaiseFromLoop
               \/ /\ Emit(ProgressMsg(node.step, node.total, node.label, Len(all')))
                  /\ UNCHANGED <<pc, regs>>
                  /\ IF AtLeast(Len(all'), total) \/ ShortPage(n)
                     THEN lp' = Saw([heard EXCEPT !.after = TRUE], n < limit, items)
                     ELSE lp' = Saw([heard EXCEPT !.i = NextOffset(@)], n < limit, items)
  /\ UNCHANGED <<conn, seen, out>>
  /\ UNCHANGED orchVars

\* src/openai/chatgpt-playwright.js:440
BATCH_SIZE == 5

Entry1(id, ok) == [id |-> id, ok |-> ok]

\* A promise of Promise.all that has not settled: its request is waiting for
\* the response, with its abort timer running.
Pending == Entry1(0, FALSE)

\* The same once fetch has resolved with a response that is ok: the timer is
\* cleared and response.json() is reading the body
\* (src/openai/chatgpt-playwright.js:253-255).
Reading == Entry1(0, TRUE)

\* src/openai/chatgpt-playwright.js:443, conversationsList.slice(i, i + BATCH_SIZE)
BatchUncut(i) == SubSeq(all, i + 1, Len(all))

Batch(i) == SubSeq(all, i + 1, Min(i + BATCH_SIZE, Len(all)))

\* The batches followed fetch by fetch: those that may come back incomplete
\* and the one after them; a later batch is followed as one step, all its
\* conversations fetched.
Followed(i) == i < (MaxFaults + 1) * BATCH_SIZE

\* The fetches of the batch that have not returned.
InFlight == {k \in DOMAIN lp.results : lp.results[k] \in {Pending, Reading}}

\* The fetch of the first conversation of a batch is the one that may fail or
\* be seen between its response and its body, in a batch that may come back
\* incomplete.
MayFail(k) == k = 1 /\ lp.i < MaxFaults * BATCH_SIZE

\* The fetches that may return next: any one of those in flight in a batch
\* that may settle out of request order, all of them at once in the batch after.
Returning ==
  IF lp.i < MaxFaults * BATCH_SIZE THEN {{k} : k \in InFlight} ELSE {InFlight} \ {{}}

SettleOnArrival(results, k, entry) ==
  LET first == CHOOSE j \in DOMAIN results :
                 /\ results[j] \in {Pending, Reading}
                 /\ \A h \in 1..(j - 1) : results[h] \notin {Pending, Reading}
  IN  [results EXCEPT ![first] = entry]

\* Promise.all keeps the value of the k-th promise at index k, whenever it
\* settles (src/openai/chatgpt-playwright.js:308).
Settle(results, k, entry) == [results EXCEPT ![k] = entry]

RECURSIVE SettleEach(_, _, _, _)
\* results after the fetches of back have returned; ok tells whether the
\* fetch that may fail succeeded.
SettleEach(results, back, batch, ok) ==
  IF back = {} THEN results
  ELSE LET k == CHOOSE h \in back : \A g \in back : h <= g
       IN  SettleEach(Settle(results, k, Entry1(batch[k], ok \/ ~MayFail(k))),
                      back \ {k}, batch, ok)

\* src/openai/chatgpt-playwright.js:446 and 238-308: page.evaluate is sent and
\* ids.map(id => fetchOne(id)) starts one fetch for each id of the batch.
StartBatch ==
  /\ InLoop("fetchConversationBatch")
  /\ lp.i < Len(all)
  /\ Followed(lp.i)
  /\ lp.results = <<>>
  /\ lp' = [lp EXCEPT !.results = [k \in DOMAIN Batch(lp.i) |-> Pending],
                      !.raced = FALSE]
  /\ NoEmit
  /\ UNCHANGED <<conn, pc, regs, all, seen, out>>
  /\ UNCHANGED orchVars

\* src/openai/chatgpt-playwright.js:248-253: the fetch of one fetchOne resolves
\* with an ok response and clearTimeout stops its abort timer; the body is
\* still to be read.
ResponseArrives ==
  /\ InLoop("fetchConversationBatch")
  /\ \E k \in InFlight :
       /\ MayFail(k)
       /\ lp.results[k] = Pending
       /\ lp' = [lp EXCEPT !.results = Settle(@, k, Reading)]
  /\ NoEmit
  /\ UNCHANGED <<conn, pc, regs, all, seen, out>>
  /\ UNCHANGED orchVars

\* src/openai/chatgpt-playwright.js:244-305: one fetchOne returns, with the
\* conversation or with { success: false } (it catches whatever it throws).
FetchOne ==
  /\ InLoop("fetchConversationBatch")
  /\ \E back \in Returning, ok \in BOOLEAN :
       /\ ~ok => \E k \in back : MayFail(k)
       /\ lp' = [lp EXCEPT !.results = SettleEach(@, back, Batch(lp.i), ok),
                           !.raced = @ \/ \E k \in back, h \in InFlight \ back : h < k]
  /\ NoEmit
  /\ UNCHANGED <<conn, pc, regs, all, seen, out>>
  /\ UNCHANGED orchVars

\* src/openai/chatgpt-playwright.js:442-483, the rest of one pass of the for
\* loop: Promise.all has resolved, page.evaluate answers with the array (or
\* with nothing: result || []), the results are pushed in the order of the
\* array and the progress is reported.
FetchConversationBatch ==
  /\ InLoop("fetchConversationBatch")
  /\ IF lp.i >= Len(all)
     THEN /\ EndLoop
          /\ NoEmit
          /\ UNCHANGED out
     ELSE \/ /\ RaiseFromLoop
             /\ UNCHANGED out
          \/ \E answer \in {"returned", "empty"} :
               /\ Followed(lp.i) => lp.results # <<>> /\ InFlight = {}
               /\ answer = "empty" => lp.i < MaxFaults * BATCH_SIZE
               /\ out' = out \o (CASE answer = "empty" -> <<>>
                                   [] Followed(lp.i) -> lp.results
                                   [] OTHER -> [k \in DOMAIN Batch(lp.i) |->
                                                 Entry1(Batch(lp.i)[k], TRUE)])
               /\ \/ RaiseFromLoop
                  \/ /\ Emit(ProgressMsg(node.step, node.total, node.label, Len(out')))
                     /\ lp' = [lp EXCEPT !.i = @ + BATCH_SIZE, !.fetches = @ + 1,
                                         !.results = <<>>]
                     /\ UNCHANGED <<pc, regs>>
  /\ UNCHANGED <<conn, all, seen>>
  /\ UNCHANGED orchVars

\* src/linkedin/linkedin-playwright.js:175-182, the calls handed to Promise.all
ApiCalls == <<"profiles", "profilePositions">>

\* src/linkedin/linkedin-playwright.js:174: the array of Promise.all is built,
\* which calls fetchApi for each element; each call sends its page.evaluate.
PromiseAll ==
  /\ Running /\ node.op = "all" /\ lp.fn = "none"
  /\ lp' = [StartLoop(node.fn, 0) EXCEPT !.results = [k \in DOMAIN ApiCalls |-> Pending]]
  /\ NoEmit
  /\ UNCHANGED <<conn, pc, regs, all, seen, out>>
  /\ UNCHANGED orchVars

\* src/linkedin/linkedin-playwright.js:52-71: the page.evaluate of one fetchApi
\* answers, with the data or with { _error } (fetchApi catches what it throws).
FetchApi ==
  /\ Running /\ node.op = "all" /\ lp.fn = node.fn
  /\ \E k \in InFlight, ok \in BOOLEAN :
       lp' = [lp EXCEPT !.results = Settle(@, k, Entry1(k, ok)),
                        !.raced = @ \/ \E h \in InFlight : h < k]
  /\ NoEmit
  /\ UNCHANGED <<conn, pc, regs, all, seen, out>>
  /\ UNCHANGED orchVars

\* src/linkedin/linkedin-playwright.js:174: await Promise.all resolves when
\* both calls have answered.
AwaitAll ==
  /\ Running /\ node.op = "all" /\ lp.fn = node.fn
  /\ InFlight = {}
  /\ pc' = node.next
  /\ lp' = NoLoop
  /\ NoEmit
  /\ UNCHANGED <<conn, regs, all, seen, out>>
  /\ UNCHANGED orchVars

PageLevelAll(fn) == TRUE

\* The promises of fetchApi are page.evaluate calls of their own
\* (src/linkedin/linkedin-playwright.js:55); those of fetchOne are fetches
\* inside the one page.evaluate of fetchConversationBatch
\* (src/openai/chatgpt-playwright.js:238-308).
PageLevel(fn) == fn = "fetchApi"

\* The page.evaluate and page.goto calls that have not answered.
OnPage ==
  IF lp.results = <<>> THEN 0
  ELSE IF PageLevel(lp.fn) THEN Cardinality(InFlight)
  ELSE 1

(***************************************************************************)
(* Scraped lists: an item is represented by its key (url, id), NoKey for   *)
(* an item that has none.                                                  *)
(***************************************************************************)
\* Keys the pages show.
MaxKey == 2

\* The largest number of items one evaluate call returns.
MaxBatch == 1

NoKey == 0

RECURSIVE SeqsUpTo(_, _)
SeqsUpTo(S, n) ==
  IF n = 0 THEN {<<>>}
  ELSE LET shorter == SeqsUpTo(S, n - 1) IN
         shorter \cup {Append(q, x) : q \in shorter, x \in S}

Batches == SeqsUpTo(0..MaxKey, MaxBatch)

\* The admission loop without its seen.has(key) test.
RECURSIVE AdmitNoDedup(_, _, _)
AdmitNoDedup(acc, sn, items) ==
  IF items = <<>> THEN [all |-> acc, seen |-> sn]
  ELSE LET key == Head(items) IN
         IF key = NoKey
         THEN AdmitNoDedup(acc, sn, Tail(items))
         ELSE AdmitNoDedup(Append(acc, key), sn \cup {key}, Tail(items))

\* for (const item of items) { if (!key || seen.has(key)) continue;
\*                             seen.add(key); all.push(item); }
RECURSIVE Admit(_, _, _)
Admit(acc, sn, items) ==
  IF items = <<>> THEN [all |-> acc, seen |-> sn]
  ELSE LET key == Head(items) IN
         IF key = NoKey \/ key \in sn
         THEN Admit(acc, sn, Tail(items))
         ELSE Admit(Append(acc, key), sn \cup {key}, Tail(items))

\* A pass met a key that seen holds, or the same key twice.
MeetsSeen(sn, items) ==
  \E k \in DOMAIN items :
    /\ items[k] # NoKey
    /\ items[k] \in sn \/ \E j \in 1..(k - 1) : items[j] = items[k]

\* src/github/github-playwright.js:118, 199
maxPages == 60

\* The loop condition with a cap one page too late.
WithinMaxPagesOffByOne(pageIndex) == pageIndex <= maxPages + 1

\* The loop condition of extractRepositories / extractStarred.
WithinMaxPages(pageIndex) == pageIndex <= maxPages

\* src/github/github-playwright.js:120-191 and 201-266, one pass of the for loop.
\* lp.fetches counts the pages navigated to.
ExtractGitHubPage ==
  /\ \E fn \in GitHubLoops : InLoop(fn)
  /\ IF ~WithinMaxPages(lp.i)
     THEN /\ UNCHANGED <<all, seen>>
          /\ EndLoop
          /\ NoEmit
     ELSE \/ /\ RaiseFromLoop
             /\ UNCHANGED <<all, seen>>
          \/ /\ UNCHANGED <<all, seen>>
             /\ EndLoopFetched(FALSE)
             /\ NoEmit
          \/ \E pageItems \in Batches, hasNext \in BOOLEAN :
               LET admitted == Admit(all, seen, pageItems)
                   skipped == MeetsSeen(seen, pageItems)
               IN
                 /\ all' = admitted.all
                 /\ seen' = admitted.seen
                 /\ \/ /\ EndLoopFetched(skipped)
                       /\ NoEmit
                    \/ /\ Emit(ProgressMsg(node.step, node.total, node.label, Len(all')))
                       /\ IF ~hasNext \/ Len(pageItems) = 0
                          THEN EndLoopSaw(skipped, ~hasNext, pageItems)
                          ELSE NextPassSaw(1, skipped, ~hasNext, pageItems)
  /\ UNCHANGED <<conn, out>>
  /\ UNCHANGED orchVars

\* src/x/x-playwright.js:341
maxPosts == 120

\* src/x/x-playwright.js:342
maxScrolls == 12

\* src/x/x-playwright.js:370
maxStagnant == 3

NextStagnantKept(stagnant, added) == IF added = 0 THEN stagnant + 1 ELSE stagnant

\* if (added === 0) stagnantScrolls += 1; else stagnantScrolls = 0;
\* (src/x/x-playwright.js:367-368; src/google/youtube-playwright.js:651-656)
NextStagnant(stagnant, added) == IF added = 0 THEN stagnant + 1 ELSE 0

\* The loop condition of extractPosts.
WithinMaxScrolls(scrollIndex) == scrollIndex < maxScrolls

\* What extractVisiblePosts finds when all holds n posts. The timeline shows
\* the posts 1, 2, 3, ... in this order: nothing is visible, a node without an
\* id, the first post again, the next post, or the timeline from its top to
\* beyond maxPosts.
VisiblePosts(n) ==
  {<<>>, <<NoKey>>, <<1>>, <<n + 1>>, RangeSeq(1, maxPosts + 1)}

\* for (const post of visible) { if (!post?.id || seen.has(post.id)) continue;
\*   seen.add(post.id); all.push(post); added += 1;
\*   if (all.length >= maxPosts) break; }
\* The same loop without recursion: the posts admitted are the first ones of
\* visible that have an id not seen before, until all holds maxPosts.
FreshAt(sn, visible, k) ==
  /\ visible[k] # NoKey
  /\ visible[k] \notin sn
  /\ \A j \in 1..(k - 1) : visible[j] # visible[k]

AdmitPostsUncapped(acc, sn, visible) ==
  LET fresh == SelectSeq([k \in DOMAIN visible |-> k],
                         LAMBDA k : FreshAt(sn, visible, k))
      posts == [k \in DOMAIN fresh |-> visible[fresh[k]]]
  IN [all |-> acc \o posts, seen |-> sn \cup Keys(posts)]

AdmitPosts(acc, sn, visible) ==
  LET fresh == SelectSeq([k \in DOMAIN visible |-> k],
                         LAMBDA k : FreshAt(sn, visible, k))
      room == IF maxPosts - Len(acc) < 1 THEN 1 ELSE maxPosts - Len(acc)
      taken == SubSeq(fresh, 1, Min(Len(fresh), room))
      posts == [k \in DOMAIN taken |-> visible[taken[k]]]
  IN [all |-> acc \o posts, seen |-> sn \cup Keys(posts)]

\* src/x/x-playwright.js:345-374, one pass of the for loop.
\* lp.fetches counts the passes, lp.note is lastVisibleError.
ExtractPosts ==
  /\ InLoop("extractPosts")
  /\ IF ~WithinMaxScrolls(lp.i)
     THEN /\ lp' = [lp EXCEPT !.after = TRUE]
          /\ UNCHANGED <<pc, regs, all, seen>>
          /\ NoEmit
     ELSE \E visible \in VisiblePosts(Len(all)), error \in BOOLEAN :
            LET admitted == AdmitPosts(all, seen, visible)
                added == Len(admitted.all) - Len(all)
                stagnantScrolls == NextStagnant(lp.stag, added)
                scanned == [lp EXCEPT !.note = @ \/ error, !.fetches = @ + 1,
                                      !.stag = stagnantScrolls,
                                      !.skipped = MeetsSeen(seen, visible)]
            IN
              /\ all' = admitted.all
              /\ seen' = admitted.seen
              /\ \/ RaiseFromLoop
                 \/ /\ Emit(ProgressMsg(node.step, node.total, node.label, Len(all')))
                    /\ IF Len(all') >= maxPosts
                       THEN /\ lp' = [scanned EXCEPT !.stag = lp.stag, !.after = TRUE]
                            /\ UNCHANGED <<pc, regs>>
                       ELSE IF stagnantScrolls >= maxStagnant
                       THEN /\ lp' = [scanned EXCEPT !.after = TRUE]
                            /\ UNCHANGED <<pc, regs>>
                       ELSE \/ /\ lp' = [scanned EXCEPT !.i = @ + 1]
                               /\ UNCHANGED <<pc, regs>>
                            \/ /\ Raise(node)
                               /\ lp' = NoLoop
                               /\ UNCHANGED regs
  /\ UNCHANGED <<conn, out>>
  /\ UNCHANGED orchVars

\* src/shopify/shop-playwright.js:358
maxRounds == 20

\* The loop condition of the order pagination.
WithinMaxRounds(round) == round < maxRounds

\* What extractOrdersFromApollo returns after a scroll when orders holds n:
\* nothing (the read failed), an empty cache, the same orders, one more.
MoreOrders(n) == {Undef, 0, n, n + 1}

\* src/shopify/shop-playwright.js:359-372, one pass of the for loop; orders is
\* kept by its length in regs. lp.fetches counts the scrolls.
PaginateOrders ==
  /\ InLoop("orderPagination")
  /\ LET orders == regs[node.reg]
         break == /\ EndLoop
                  /\ NoEmit
     IN IF ~WithinMaxRounds(lp.i)
        THEN break
        ELSE \/ break
             \/ RaiseFromLoop
             \/ \E more \in MoreOrders(orders) :
                  IF more = Undef \/ more <= orders
                  THEN /\ EndLoopFetched(FALSE)
                       /\ NoEmit
                  ELSE \/ /\ regs' = [regs EXCEPT ![node.reg] = more]
                          /\ Emit(ProgressMsg(node.step, node.total, node.label, more))
                          /\ lp' = [lp EXCEPT !.i = @ + 1, !.fetches = @ + 1]
                          /\ UNCHANGED pc
                       \/ RaiseFromLoop
  /\ UNCHANGED <<conn, all, seen, out>>
  /\ UNCHANGED orchVars

\* src/x/x-playwright.js:580
MAX_LOAD_MORE == 20

\* The loop condition of navigateToDetailPage.
WithinMaxLoadMore(loadMoreAttempts) == loadMoreAttempts < MAX_LOAD_MORE

\* src/x/x-playwright.js:581-603, one pass of the while loop; lp.i is
\* loadMoreAttempts, the number of 'Load more' clicks.
LoadMore ==
  /\ InLoop("navigateToDetailPage")
  /\ IF ~WithinMaxLoadMore(lp.i)
     THEN /\ lp' = [lp EXCEPT !.after = TRUE]
          /\ UNCHANGED <<pc, regs>>
          /\ NoEmit
     ELSE \/ RaiseFromLoop
          \/ /\ lp' = [lp EXCEPT !.after = TRUE]
             /\ UNCHANGED <<pc, regs>>
             /\ NoEmit
          \/ /\ lp' = [lp EXCEPT !.i = @ + 1, !.fetches = @ + 1]
             /\ Emit(ProgressMsg(node.step, node.total, node.label, NoCount))
             /\ UNCHANGED <<pc, regs>>
          \/ RaiseFromLoop
  /\ UNCHANGED <<conn, all, seen, out>>
  /\ UNCHANGED orchVars

\* JavaScript totalCount && n >= totalCount: false when totalCount is
\* undefined or 0.
TruthyAndReached(n, totalCount) == totalCount # Undef /\ totalCount # 0 /\ n >= totalCount

\* The tracks of a page the loop keeps: those with a name (liked songs), those
\* of type Track (playlists). A page is kept whole or dropped whole.
Kept(items, usable) == IF usable THEN items ELSE <<>>

\* gqlFetch answers null after sending a status (missing hash, failed
\* request): src/spotify/spotify-playwright.js:239-283.
GqlFetchFailed ==
  /\ Emit(DataMsg("status"))
  /\ EndLoopFetched(FALSE)

\* src/spotify/spotify-playwright.js:425-463, one pass of while (true);
\* all is savedTracks (by uri), lp.i is offset.
FetchLibraryTracks ==
  /\ InLoop("fetchLibraryTracks")
  /\ lp.fetches < MaxFetches
  /\ \/ /\ RaiseFromLoop
        /\ UNCHANGED all
     \/ /\ all' = all
        /\ GqlFetchFailed
     \/ /\ all' = all
        /\ EndLoopFetched(FALSE)
        /\ NoEmit
     \/ \E n \in PageSizes, totalCount \in Totals, shift \in Shifts, named \in BOOLEAN :
          /\ shift <= lp.i
          /\ all' = all \o Kept(RangeSeq(lp.i + 1 - shift, n), named)
          /\ \/ RaiseFromLoop
             \/ /\ Emit(ProgressMsg(node.step, node.total, node.label, Len(all')))
                /\ IF ShortPage(n) \/ TruthyAndReached(Len(all'), totalCount)
                   THEN EndLoopSaw(FALSE, n < limit, RangeSeq(lp.i + 1 - shift, n))
                   ELSE NextPassSaw(limit, FALSE, n < limit, RangeSeq(lp.i + 1 - shift, n))
  /\ UNCHANGED <<conn, seen, out>>
  /\ UNCHANGED orchVars

\* src/spotify/spotify-playwright.js:503-546, one pass of while (true);
\* all is allPlaylistTracks, lp.i is plOffset, lp.note is playlistMeta # null.
FetchPlaylist ==
  /\ InLoop("fetchPlaylist")
  /\ lp.fetches < MaxFetches
  /\ \/ /\ RaiseFromLoop
        /\ UNCHANGED all
     \/ /\ all' = all
        /\ GqlFetchFailed
     \/ /\ all' = all
        /\ EndLoopFetched(FALSE)
        /\ NoEmit
     \/ \E n \in PageSizes, totalCount \in Totals, isTrack \in BOOLEAN :
          /\ all' = all \o Kept(RangeSeq(lp.i + 1, n), isTrack)
          /\ NoEmit
          /\ IF ShortPage(n) \/ Len(all') >= OrElseZero(totalCount)
             THEN /\ lp' = Saw([lp EXCEPT !.note = TRUE, !.fetches = @ + 1, !.after = TRUE],
                               n < limit, RangeSeq(lp.i + 1, n))
                  /\ UNCHANGED <<pc, regs>>
             ELSE /\ lp' = Saw([lp EXCEPT !.i = @ + limit, !.fetches = @ + 1, !.note = TRUE],
                               n < limit, RangeSeq(lp.i + 1, n))
                  /\ UNCHANGED <<pc, regs>>
  /\ UNCHANGED <<conn, seen, out>>
  /\ UNCHANGED orchVars

\* src/google/youtube-playwright.js:34
MAX_SCROLLS_PLAYLIST_ITEMS == 20

\* src/google/youtube-playwright.js:653
maxNoChange == 2

\* The loop condition of scrapePlaylistPage.
WithinMaxScrolls_PlaylistItems(scroll) == scroll < MAX_SCROLLS_PLAYLIST_ITEMS

\* A video of a playlist page: its id and its url, each possibly missing (NoKey).
\* Ids are positive and urls negative: an id is never equal to a url.
Video(id, url) == [videoId |-> id, videoUrl |-> url]

VideoItems == {Video(NoKey, NoKey), Video(1, NoKey), Video(1, -1), Video(NoKey, -1)}

VideoBatches == SeqsUpTo(VideoItems, MaxBatch)

\* const key = item.videoId || item.videoUrl
VideoKey(item) == IF item.videoId # NoKey THEN item.videoId ELSE item.videoUrl

VideoKeys(items) == [k \in DOMAIN items |-> VideoKey(items[k])]

\* for (const item of (batch || [])) { ... if (key && !seen.has(key)) {
\*   seen.add(key); allItems.push(item); newItemsCount++; } }
RECURSIVE AdmitVideos(_, _, _)
AdmitVideos(acc, sn, batch) ==
  IF batch = <<>> THEN [all |-> acc, seen |-> sn]
  ELSE LET key == VideoKey(Head(batch)) IN
         IF key # NoKey /\ key \notin sn
         THEN AdmitVideos(Append(acc, Head(batch)), sn \cup {key}, Tail(batch))
         ELSE AdmitVideos(acc, sn, Tail(batch))

\* src/google/youtube-playwright.js:585-660, one pass of the for loop; all is
\* allItems, lp.i is scroll, lp.stag is noChangeRounds.
ScrapePlaylistPage ==
  /\ InLoop("scrapePlaylistPage")
  /\ LET thrown == /\ Raise(node)
                   /\ lp' = NoLoop
                   /\ all' = <<>>
                   /\ seen' = {}
                   /\ regs' = FailedIn(regs, lp.fn)
     IN IF ~WithinMaxScrolls_PlaylistItems(lp.i)
        THEN /\ UNCHANGED <<all, seen>>
             /\ EndLoop
        ELSE \/ thrown
             \/ \E batch \in VideoBatches :
                  LET admitted == AdmitVideos(all, seen, batch)
                      newItemsCount == Len(admitted.all) - Len(all)
                      noChangeRounds == NextStagnant(lp.stag, newItemsCount)
                      skipped == MeetsSeen(seen, VideoKeys(batch))
                  IN IF noChangeRounds >= maxNoChange
                     THEN /\ all' = admitted.all
                          /\ seen' = admitted.seen
                          /\ lp' = [lp EXCEPT !.after = TRUE, !.fetches = @ + 1,
                                              !.stag = noChangeRounds,
                                              !.skipped = skipped]
                          /\ UNCHANGED <<pc, regs>>
                     ELSE \/ /\ all' = admitted.all
                             /\ seen' = admitted.seen
                             /\ lp' = [lp EXCEPT !.i = @ + 1, !.fetches = @ + 1,
                                                 !.stag = noChangeRounds,
                                                 !.skipped = skipped]
                             /\ UNCHANGED <<pc, regs>>
                          \/ thrown
  /\ NoEmit
  /\ UNCHANGED <<conn, out>>
  /\ UNCHANGED orchVars

(***************************************************************************)
(* Tiered extraction: extractDetailPageEntities (src/unnamed/part_001:     *)
(* 994-1020) tries its strategies one after the other.                     *)
(***************************************************************************)
\* The strategies in the order the function declares them: <code> elements,
\* the captured network response, the in-browser API fetch.
Strategies == <<"code", "captured", "api">>

\* The strategies whose call is not inside a try of their own:
\* extractFromCodeElements (773) and page.getCapturedResponse (1001);
\* fetchVoyagerApi catches and answers null (846-862).
Unguarded == {1, 2}

\* What a strategy yielded when it threw.
Threw == -1

Tried(k, n) == [tier |-> k, n |-> n]

\* The n entities strategy k collects; those of different strategies differ.
EntitiesOf(k, n) == RangeSeq(10 * k + 1, n)

\* Early exit without any test.
StopsAtNever(entities) == FALSE

\* if (entities.length > 0) return entities;
StopsAt(entities) == Len(entities) > 0

\* One strategy of extractDetailPageEntities; lp.i is the strategy that comes
\* next, all is entities, lp.note tells that a strategy threw.
ExtractDetailPageEntities ==
  /\ InLoop("extractDetailPageEntities")
  /\ IF lp.i > Len(Strategies)
     THEN /\ EndLoop
          /\ UNCHANGED all
     ELSE \/ \E n \in 0..MaxCount :
               LET entities == EntitiesOf(lp.i, n) IN
                 /\ all' = entities
                 /\ lp' = [lp EXCEPT !.tried = Append(@, Tried(lp.i, n)),
                                     !.i = @ + 1,
                                     !.after = StopsAt(entities)]
                 /\ UNCHANGED <<pc, regs>>
          \/ /\ lp.i \in Unguarded
             /\ all' = <<>>
             /\ lp' = [lp EXCEPT !.tried = Append(@, Tried(lp.i, Threw)),
                                 !.note = TRUE, !.after = TRUE]
             /\ UNCHANGED <<pc, regs>>
          \/ /\ Strategies[lp.i] = "api"
             /\ lp' = [lp EXCEPT !.i = @ + 1]
             /\ UNCHANGED <<pc, regs, all>>
  /\ NoEmit
  /\ UNCHANGED <<conn, seen, out>>
  /\ UNCHANGED orchVars

(***************************************************************************)
(* The return of a pagination function: what follows its loop, and what    *)
(* the main flow keeps of the list it returns (its length; the ChatGPT     *)
(* conversation list is kept whole for the download loop).                 *)
(***************************************************************************)
\* Functions with a page call after their loop.
HasEpilog == {"navigateToDetailPage"}

Returned(fn) ==
  CASE fn = "fetchConversationBatch" -> [regs EXCEPT ![node.reg] = Len(out)]
    [] fn = "fetchPlaylist" -> [regs EXCEPT ![node.reg] = IF lp.note THEN @ + 1 ELSE @]
    [] fn = "orderPagination" -> regs
    [] node.reg = "none" -> regs
    [] OTHER -> [regs EXCEPT ![node.reg] = Len(all)]

LoopReturn ==
  /\ Running /\ node.op = "loop" /\ lp.fn = node.fn /\ lp.after
  /\ LET note == lp.fn = "extractPosts" /\ lp.note
         threw == lp.fn \in TieredExtractors /\ lp.note
     IN
       \/ /\ ~threw
          /\ regs' = IF lp.fn = "fetchConversationsList" /\ lp.note
                     THEN FailedIn(Returned(lp.fn), lp.fn)
                     ELSE Returned(lp.fn)
          /\ pc' = node.next
          /\ lp' = NoLoop
          /\ all' = IF lp.fn = "fetchConversationsList" THEN all ELSE <<>>
          /\ seen' = {}
          /\ out' = <<>>
          /\ IF note THEN Emit(DataMsg("status")) ELSE NoEmit
       \/ /\ note \/ threw \/ lp.fn \in HasEpilog
          /\ RaiseFromLoop
          /\ UNCHANGED <<all, seen, out>>
  /\ UNCHANGED conn
  /\ UNCHANGED orchVars

(***************************************************************************)
(* The connector specification.                                            *)
(***************************************************************************)
ConnInit(c, entry) ==
  /\ conn = c
  /\ pc = entry
  /\ regs = NoRegs
  /\ lp = NoLoop
  /\ all = <<>>
  /\ seen = {}
  /\ out = <<>>
  /\ lastMsg = NoMsg
  /\ emitted = 0
  /\ nResult = 0
  /\ nError = 0
  /\ progCount = [s \in Steps |-> NoCount]
  /\ progLabel = [s \in Steps |-> ""]
  /\ result = NoResult

\* A connector script starts; the test runner is not looked into.
Init == InitOrch /\ \E c \in Connectors : ConnInit(c, Entry[c])

Next ==
  \/ SetData
  \/ SetProgress
  \/ PageCall
  \/ ResolveUsername
  \/ Test
  \/ Pick
  \/ Return
  \/ EnterLoop
  \/ LoopReturn
  \/ FetchConversationsList
  \/ PromiseAll
  \/ FetchApi
  \/ AwaitAll
  \/ StartBatch
  \/ ResponseArrives
  \/ FetchOne
  \/ FetchConversationBatch
  \/ ExtractGitHubPage
  \/ ExtractPosts
  \/ PaginateOrders
  \/ LoadMore
  \/ FetchLibraryTracks
  \/ FetchPlaylist
  \/ ScrapePlaylistPage
  \/ ExtractDetailPageEntities
  \/ For
  \/ Positive

Spec == Init /\ [][Next]_vars

\* The test runner with a worker whose script is not looked into.
InitRunner == InitOrch /\ ConnInit("none", Done)

SpecOrch == InitRunner /\ [][NextOrch]_vars

(***************************************************************************)
(*                    Claims about the connector scripts                   *)
(***************************************************************************)

\* C1: every run of a connector main flow emits exactly one terminal message
\* through page.setData, one 'result' or one 'error', never both and never
\* neither, also when a page.* call throws: when main has returned or rejected,
\* the terminal messages sent number exactly one.
C1_ExactlyOneTerminal ==
  pc \in {Done, Crashed} => nResult + nError = 1

\* C2: the terminal message is the last message of a run: once a 'result' or an
\* 'error' has been sent, no step of the run sends another message.
C2_TerminalIsLast ==
  [][(nResult + nError > 0) => emitted' = emitted]_vars

\* C3: whatever the page reports, the capped loops never exceed their cap:
\* extractRepositories and extractStarred navigate to at most maxPages pages,
\* extractPosts scans at most maxScrolls times, the order pagination scrolls at
\* most maxRounds times and navigateToDetailPage clicks 'Load more' at most
\* MAX_LOAD_MORE times.
C3_CapsHold ==
  /\ lp.fn \in GitHubLoops => lp.fetches <= maxPages /\ lp.i <= maxPages + 1
  /\ lp.fn = "extractPosts" => lp.fetches <= maxScrolls
  /\ lp.fn = "orderPagination" => lp.fetches <= maxRounds
  /\ lp.fn = "navigateToDetailPage" => lp.fetches <= MAX_LOAD_MORE

\* extractStarred has used up its maxPages pages and left its loop by the cap.
C3_Witness ==
  lp.fn = "extractStarred" /\ lp.fetches = maxPages /\ lp.i > maxPages /\ lp.after

\* The loops the code runs as while (true).
UncappedLoops == {"fetchConversationsList", "fetchLibraryTracks", "fetchPlaylist"}

\* C4: fetchConversationsList, the liked-songs loop and the per-playlist loop stop
\* after a bounded number of page fetches for every sequence of server answers:
\* however many fetches are followed (MaxFetches), such a loop has stopped before
\* it has made that many.
C4_LoopsAreCapped ==
  (lp.fn \in UncappedLoops /\ ~lp.after) => lp.fetches < MaxFetches

\* C5: the lists accumulated by extractRepositories, extractStarred, extractPosts
\* and scrapePlaylistPage hold no two items with the same key, and an item is
\* admitted only if its key was not in seen: the keys of the list are exactly the
\* keys of seen, each once, and none is the missing key.
C5_NoDuplicateKeys ==
  /\ lp.fn \in GitHubLoops \cup {"extractPosts"}
       => NoDuplicates(all) /\ Keys(all) = seen /\ NoKey \notin seen
  /\ lp.fn = "scrapePlaylistPage"
       => /\ NoDuplicates(VideoKeys(all))
          /\ Keys(VideoKeys(all)) = seen
          /\ NoKey \notin seen

\* A page of extractRepositories showed a repository already in the list.
C5_Witness ==
  lp.fn = "extractRepositories" /\ lp.skipped /\ Len(all) = MaxKey

\* C6: for any sequence of page answers, overlapping pages included, the list
\* of fetchConversationsList holds no two conversations with the same id and the
\* liked-songs list no two tracks with the same uri.
C6_OffsetListsHaveNoDuplicates ==
  lp.fn \in {"fetchConversationsList", "fetchLibraryTracks"} => NoDuplicates(all)

\* C7: every setProgress call has 1 <= step <= total; within a step the counts of
\* successive calls that carry one never decrease; and the label of a step is the
\* same in every call of the run.
C7_ProgressIsOrderly ==
  [][/\ lastMsg'.kind = "progress"
          => 1 <= lastMsg'.step /\ lastMsg'.step <= lastMsg'.total
     /\ \A s \in Steps :
          /\ progCount[s] # NoCount => progCount'[s] >= progCount[s]
          /\ progLabel[s] # "" => progLabel'[s] = progLabel[s]]_vars

\* The second extractPosts pass of X reports its first count.
C7_Witness ==
  /\ conn = "x" /\ pc = 447 /\ lp.fn = "extractPosts"
  /\ lastMsg.kind = "progress" /\ lastMsg.step = 2 /\ lastMsg.count > 0

\* C13: tiered extraction tries its strategies strictly in declared order and
\* stops at the first non-empty result: in extractDetailPageEntities the
\* strategies invoked so far come in declared order, every one but the last
\* yielded nothing, and the function returns the entities of the last one (or
\* none); the Shop flow reaches the DOM fallback only with no orders from the
\* Apollo cache.
C13_TiersInOrder ==
  /\ lp.fn = "extractDetailPageEntities" =>
       /\ \A k \in DOMAIN lp.tried :
            /\ lp.tried[k].tier \in DOMAIN Strategies
            /\ k > 1 => /\ lp.tried[k - 1].tier < lp.tried[k].tier
                        /\ lp.tried[k - 1].n = 0
       /\ (lp.after /\ ~lp.note) =>
            all = IF lp.tried = <<>> THEN <<>>
                  ELSE LET last == lp.tried[Len(lp.tried)] IN EntitiesOf(last.tier, last.n)
  /\ (conn = "shop" /\ pc = 375) => regs["orders"] = 0

\* The first strategy yielded nothing, the second yielded entities, and the
\* function returns them without having invoked the third.
C13_Witness ==
  /\ lp.fn = "extractDetailPageEntities" /\ lp.after
  /\ lp.tried = <<Tried(1, 0), Tried(2, MaxCount)>>
  /\ all = EntitiesOf(2, MaxCount)

\* C14: a strategy of extractDetailPageEntities that throws counts as an empty
\* result of its tier: when the function is over, every strategy that threw,
\* unless it is the last one declared, was followed by the next strategy.
C14_ThrowIsAnEmptyTier ==
  (lp.fn = "extractDetailPageEntities" /\ lp.after) =>
    \A k \in DOMAIN lp.tried :
      lp.tried[k].n = Threw =>
        (k < Len(lp.tried) \/ lp.tried[k].tier = Len(Strategies))

\* The statement at pc is a call of page.api.
AtCall(api) == Running /\ node.op = "page" /\ node.key = api

\* C15: in every connector, once the login check made before any
\* page.showBrowser has reported an authenticated session, the run never
\* reaches a call of page.promptUser.
C15_RestoredSkipsLogin == regs["restored"] = 1 => ~AtCall("promptUser")

\* A session found restored (in ChatGPT by the re-check) and a run that went
\* on to its result without showing the browser.
C15_Witness ==
  /\ regs["restored"] = 1 /\ regs["shown"] = 0
  /\ nResult = 1 /\ pc = Done

\* C16: once page.goHeadless has been called, the run never reaches a call of
\* page.showBrowser or page.promptUser.
C16_HeadlessIsFinal ==
  regs["headless"] = 1 => ~(AtCall("showBrowser") \/ AtCall("promptUser"))

\* The statement at pc calls a helper that collects data.
AtCollection == Running /\ node.op \in {"pick", "loop"}

\* C17: in every connector, page.goHeadless has been called before the first
\* helper that collects data is called, on the interactive-login path and on
\* the restored-session path.
C17_HeadlessBeforeCollection == AtCollection => regs["headless"] = 1

\* Message m is a setData('status', ...).
IsStatus(m) == m.kind = "data" /\ m.key = "status"

\* The statement at pc asks whether the session is logged in.
AtLoginCheck == Running /\ node.op = "test" /\ node.fn \in LoginChecks

\* C18: every lifecycle transition is announced by a status message: the last
\* message before the first login check is a status; a status is sent
\* between page.showBrowser and page.promptUser; the statement that follows a
\* login check answered true is a setData('status', ...); and the last
\* message of a run that returns after its result is a status.
C18_TransitionsAnnounced ==
  [][/\ ((AtLoginCheck /\ regs["shown"] = 0) => IsStatus(lastMsg))'
     /\ (AtCall("promptUser") => regs["shown"] = 2)'
     /\ (AtLoginCheck /\ pc' = node.next) =>
          (Running /\ node.op = "data" /\ node.key = "status")'
     /\ ((pc = Done /\ nResult = 1 /\ nError = 0) => IsStatus(lastMsg))']_vars

\* C19: once a required identity or credential was found unresolved (ChatGPT
\* email or credentials, GitHub username, X username, Spotify access token
\* after login or client token), the only statements the run still executes
\* are setData('error', ...) and then return: it calls no collection helper
\* and no other page function, has sent no result and sends none, and has
\* sent one error when it returns.
C19_UnresolvedIdentityIsFatal ==
  regs["unresolved"] = 1 =>
    /\ nResult = 0
    /\ Running => \/ node.op = "data" /\ node.key = "error" /\ nError = 0
                  \/ node.op = "ret" /\ nError = 1
    /\ pc = Done => nError = 1 /\ lastMsg = DataMsg("error")

\* The X username could not be resolved, and the run returned after its error.
C19_Witness ==
  /\ conn = "x" /\ regs["unresolved"] = 1 /\ regs["username"] = 0
  /\ pc = Done /\ lastMsg = DataMsg("error")

\* The statement at pc is setData('result', ...).
AtResult == Running /\ node.op = "data" /\ node.key = "result"

\* C20: whenever a collection phase has failed and the run nevertheless goes
\* on to its result, the failure was followed by a warning: no failure is
\* left without its warning when the result is sent.
C20_FailuresAreWarned == AtResult => regs["failed"] = 0

\* A result was sent.
Sent == result # NoResult

\* The lists of collected items a connector puts in its result, the primary
\* one first.
ItemLists(c) ==
  CASE c = "chatgpt" -> <<"conversations", "memories">>
    [] c \in {"github", "github113"} -> <<"repositories", "starred">>
    [] c = "x" -> <<"posts">>
    [] c = "shop" -> <<"orders">>
    [] c \in {"linkedin", "linkedinDom", "linkedinApi"} ->
         <<"experiences", "education", "skills", "languages">>
    [] c = "spotify" -> <<"savedTracks", "playlists">>
    [] c = "youtube" -> <<"subscriptions", "playlists", "likes", "watchLater", "history">>
    [] OTHER -> <<"zero">>

RECURSIVE Total(_)
Total(lists) == IF lists = <<>> THEN 0 ELSE regs[Head(lists)] + Total(Tail(lists))

\* C21: in every result sent, exportSummary.count is the number of collected
\* items, of all scopes or of the primary scope, and exportSummary.label is
\* the singular noun exactly when that count is 1.
C21_SummaryCountsItems ==
  Sent =>
    /\ result.exportSummary.count \in {Total(ItemLists(conn)), regs[Head(ItemLists(conn))]}
    /\ result.exportSummary.label.plural = (result.exportSummary.count # 1)

\* The keys every result object must have.
Reserved ==
  {Plain("exportSummary"), Plain("timestamp"), Plain("version"), Plain("platform")}

\* C22: every result sent by any connector has the four reserved metadata
\* keys exportSummary, timestamp, version and platform.
C22_ReservedKeysPresent == Sent => Reserved \subseteq result.keys

\* A result of the Shop connector was sent, and the run returned.
C22_Witness ==
  /\ conn = "shop" /\ Sent /\ pc = Done
  /\ Scope("shop", "orders") \in result.keys

\* Key k contains a '.'.
Namespaced(k) == Len(k) > 1

\* C23: every top-level key of a result sent, other than the four reserved
\* keys, is a namespaced scope name source.category.
C23_ScopesAreNamespaced == \A k \in result.keys \ Reserved : Namespaced(k)

\* C24: in the ChatGPT download at most BATCH_SIZE conversation fetches are in
\* flight, all of them fetches of the batch at the loop index, and while they
\* are in flight every earlier batch has finished its pass: its results were
\* merged before the loop index moved on.
C24_BatchesDoNotOverlap ==
  (conn = "chatgpt" /\ lp.results # <<>>)
    => /\ lp.fn = "fetchConversationBatch"
       /\ Cardinality(InFlight) <= BATCH_SIZE
       /\ Len(lp.results) = Len(Batch(lp.i))
       /\ Len(lp.results) <= BATCH_SIZE
       /\ lp.i = BATCH_SIZE * lp.fetches
       /\ \A k \in DOMAIN lp.results \ InFlight : lp.results[k].id = all[lp.i + k]

\* The second batch has all its fetches in flight after the first was merged.
C24_Witness ==
  /\ conn = "chatgpt"
  /\ Cardinality(InFlight) = BATCH_SIZE
  /\ lp.i = BATCH_SIZE
  /\ Len(out) = BATCH_SIZE

Ids(entries) == [k \in DOMAIN entries |-> entries[k].id]

RECURSIVE IsSubSeq(_, _, _, _)
\* s from index i on is found, in order, in t from index j on.
IsSubSeq(s, t, i, j) ==
  IF i > Len(s) THEN TRUE
  ELSE IF j > Len(t) THEN FALSE
  ELSE IF s[i] = t[j] THEN IsSubSeq(s, t, i + 1, j + 1)
  ELSE IsSubSeq(s, t, i, j + 1)

\* C25: the conversations output of the ChatGPT download follows the order of
\* the conversation list whatever the order in which the fetches of a batch
\* returned. When the loop is over its ids are the list itself if every batch
\* was answered, and a subsequence of it otherwise; during the loop the batch
\* merged last stands in the output at the places it has in the list, as long
\* as every batch was answered.
C25_OutputKeepsListOrder ==
  lp.fn = "fetchConversationBatch"
    => /\ lp.after
            => IF Len(out) = Len(all) THEN Ids(out) = all
               ELSE IsSubSeq(Ids(out), all, 1, 1)
       /\ (~lp.after /\ Len(out) = Min(lp.i, Len(all)))
            => \A k \in DOMAIN out : k > Len(out) - BATCH_SIZE => out[k].id = all[k]

\* The first batch has been merged, one of whose fetches returned before an
\* earlier one.
C25_Witness ==
  /\ lp.fn = "fetchConversationBatch" /\ lp.raced /\ lp.results = <<>>
  /\ Len(out) = BATCH_SIZE
  /\ Ids(out) = SubSeq(all, 1, BATCH_SIZE)

\* C26 as claimed: at most one page.evaluate or page.goto is in flight on the
\* page at any time, in every connector.
C26_PageOperationsSerialized == OnPage <= 1

\* C26: at most one page.evaluate or page.goto is in flight at any time, except
\* at the Promise.all of the LinkedIn connector, where the two page.evaluate
\* calls of fetchApi are in flight together; the fetches of a ChatGPT batch
\* run inside one page.evaluate.
C26_OnlyFetchApiOverlaps ==
  /\ OnPage <= Len(ApiCalls)
  /\ OnPage > 1 => conn = "linkedin" /\ pc = 174
  /\ lp.fn = "fetchConversationBatch" => OnPage <= 1

\* Both fetchApi calls of the LinkedIn connector are waiting for their answer.
C26_Witness == conn = "linkedin" /\ pc = 174 /\ OnPage = Len(ApiCalls)

\* The loops that page through a list until an answer signals its end.
PagedLoops == GitHubLoops \cup {"fetchConversationsList", "fetchLibraryTracks", "fetchPlaylist"}

ScrollLoops == {"extractPosts", "scrapePlaylistPage"}

\* The number of passes in a row without a new item at which each gives up.
GivesUpAt(fn) == IF fn = "extractPosts" THEN maxStagnant ELSE maxNoChange

\* A pass of a scroll loop.
ScrollPass ==
  lp.fn \in ScrollLoops /\ lp'.fn = lp.fn /\ lp'.fetches = lp.fetches + 1

\* C28: extractPosts stops at the pass in which its count of passes in a row
\* that admitted no post reaches maxStagnant (3), and scrapePlaylistPage at
\* maxNoChange (2): the loop goes on only below that count and never exceeds
\* it; a pass that admits nothing adds one to the count and leaves the list as
\* it was, a pass that admits an item resets the count to 0 (or ends
\* extractPosts at maxPosts).
C28_StagnationStopsTheLoop ==
  [][/\ lp'.fn \in ScrollLoops
          => /\ lp'.stag <= GivesUpAt(lp'.fn)
             /\ ~lp'.after => lp'.stag < GivesUpAt(lp'.fn)
     /\ ScrollPass
          => /\ all' = all => lp'.stag = lp.stag + 1
             /\ lp'.stag = lp.stag + 1 => all' = all
             /\ all' # all
                  => \/ lp'.stag = 0
                     \/ /\ lp.fn = "extractPosts" /\ lp'.after
                        /\ Len(all') >= maxPosts /\ lp'.stag = lp.stag]_vars

\* extractPosts saw the same post in four passes and gave up with that post.
C28_Witness ==
  /\ lp.fn = "extractPosts" /\ lp.after
  /\ lp.stag = 3 /\ lp.fetches = 4
  /\ Len(all) = 1

\* C29: extractPosts never holds or returns more than maxPosts (120) posts,
\* whatever the timeline shows: a pass stops admitting at maxPosts, and once
\* the list holds maxPosts the loop is over, with no further scroll.
C29_PostsAreCapped ==
  /\ lp.fn = "extractPosts"
       => /\ Len(all) <= maxPosts
          /\ Len(all) >= maxPosts => lp.after
  /\ conn = "x" => regs["posts"] <= maxPosts

\* The timeline showed more than maxPosts posts at once: the first pass took
\* maxPosts of them and the loop ended.
C29_Witness ==
  /\ lp.fn = "extractPosts" /\ lp.after
  /\ lp.fetches = 1
  /\ Len(all) = 120

\* The pagination loops C30 names.
ProgressLoops ==
  GitHubLoops \cup {"extractPosts", "fetchConversationsList", "scrapePlaylistPage",
                    "orderPagination"}

\* C30: every pass of a pagination loop (extractRepositories, extractStarred,
\* extractPosts, fetchConversationsList, scrapePlaylistPage, the order
\* pagination of Shop) sends a progress message whose count is the number of
\* items accumulated so far.
C30_EveryPassReportsProgress ==
  [][(lp.fn \in ProgressLoops /\ lp'.fn = lp.fn /\ lp'.fetches = lp.fetches + 1)
       => /\ emitted' # emitted
          /\ lastMsg'.kind = "progress"
          /\ lastMsg'.count = IF lp.fn = "orderPagination" THEN regs'[node.reg]
                              ELSE Len(all')]_vars

\* The statement at line is setData('error', ...).
IsError(line) ==
  /\ line \notin {Done, Crashed}
  /\ Flow[conn][line].op = "data" /\ Flow[conn][line].key = "error"

\* C31: a collection that came back empty does not by itself make the run an
\* error: the test of an empty list of collected items never leads to
\* setData('error', ...).
C31_EmptyIsNotAnError ==
  [][(/\ Running /\ node.op = "pos"
      /\ \E k \in DOMAIN ItemLists(conn) : ItemLists(conn)[k] = node.reg
      /\ regs[node.reg] = 0)
       => ~IsError(pc')]_vars

\* A capped loop is over because its loop condition failed: every pass it is
\* allowed was made and none of them stopped it.
CapReached ==
  /\ lp.after
  /\ \/ lp.fn \in GitHubLoops /\ ~WithinMaxPages(lp.i)
     \/ lp.fn = "extractPosts" /\ ~WithinMaxScrolls(lp.i)

\* C32: when extractRepositories, extractStarred or extractPosts ends by its
\* cap, the function returns what it has accumulated, the run goes on to its
\* next statement, and a status or log message tells that the cap was reached
\* (the note extractPosts sends about lastVisibleError is not such a message).
C32_CapIsReported ==
  [][(CapReached /\ lp'.fn = "none")
       => /\ pc' = node.next
          /\ regs'[node.reg] = Len(all)
          /\ emitted' # emitted
          /\ lastMsg'.kind = "data" /\ lastMsg'.key \in {"status", "log", "warning"}
          /\ ~(lp.fn = "extractPosts" /\ lp.note)]_vars

\* The first size conversations of the server's list, in its order.
FirstOf(size) == [k \in 1..size |-> k]

C34_EveryFetchIsTimed ==
  lp.fn = "fetchConversationBatch" => \A k \in InFlight : lp.results[k] = Pending

\* C35: when the ChatGPT download loop is over, the output holds exactly one
\* entry for every conversation of the list, a full one or a placeholder,
\* whatever the batch evaluations returned, an evaluation that returned
\* nothing included.
C35_OneEntryPerConversation ==
  (lp.fn = "fetchConversationBatch" /\ lp.after) => Ids(out) = all

\* C37: a login helper never lets an exception through: whatever its
\* page.evaluate does, the main flow continues on one of the two branches of
\* the test, and an evaluation that throws is answered as not logged in.
C37_LoginCheckNeverThrows ==
  [][AtLoginCheck => /\ pc' \in {node.next, node.alt}
                     /\ CheckLogin("throws") = "false"]_vars

\* A login check was answered not logged in and the browser was shown.
C37_Witness ==
  /\ regs["shown"] >= 1
  /\ \E l \in DOMAIN Flow[conn] :
       /\ Flow[conn][l].op = "test" /\ Flow[conn][l].fn \in LoginChecks
       /\ pc = Flow[conn][l].alt

\* The characters the claim allows in a username: letters, digits, hyphen.
Allowed == {"a", "Z", "0", "-"}

\* The name numbered value is a non-empty string matching ^[a-zA-Z0-9-]+$.
WellFormed(value) ==
  /\ value \in DOMAIN Names
  /\ Names[value] # <<>>
  /\ \A k \in DOMAIN Names[value] : Names[value][k] \in Allowed

\* C38: in the validated GitHub connector no page.goto to a URL built from the
\* username is performed unless the username is a non-empty string matching
\* ^[a-zA-Z0-9-]+$: a helper called with another username returns without
\* navigating, and the main flow whose username is not of that form sends an
\* error and never reaches the statements that collect.
C38_OnlyValidUsernamesAreVisited ==
  conn = "github113"
    => /\ regs["visited"] = 1 => WellFormed(regs["username"])
       /\ (pc \in DOMAIN GitHub113Flow /\ pc >= 394) => WellFormed(regs["username"])
       /\ (pc = 390 /\ ~WellFormed(regs["username"])) => nError = 1 /\ regs["visited"] = 0

\* The pages showed no well-formed username: the error was sent and nothing
\* was visited.
C38_Witness ==
  /\ conn = "github113" /\ pc = 390
  /\ regs["username"] = NoName /\ regs["unresolved"] = 1 /\ regs["visited"] = 0

(***************************************************************************)
(*                    Claims about the test runner                         *)
(***************************************************************************)

\* C8: the orchestrator writes a run command only in response to a ready message
\* and, over the lifetime of one worker process, exactly one: whatever lines the
\* worker prints, a second run command is never written.
C8_ExactlyOneRun == stdinRuns <= 1

\* C9: the orchestrator exits with code 0 if and only if a result message was
\* received from the worker.
C9_ExitZeroIffResult ==
  orch = "exited" => (exitCode = 0 <=> resultRef # NoData)

\* C10: if the worker wrote a well-formed result line and then exited, the
\* orchestrator has recorded that result and written it to the output path by the
\* time it exits, in every interleaving of the 'exit' and 'line' events.
C10_ResultNeverMissed ==
  (orch = "exited" /\ wroteResult # NoData)
    => (resultRef = wroteResult /\ outFile = wroteResult)

\* The step that handles the line at the head of the protocol stream / of the
\* diagnostic stream.
HandlesStdout == stdoutBuf # <<>> /\ stdoutBuf' = Tail(stdoutBuf)

HandlesStderr == stderrBuf # <<>> /\ stderrBuf' = Tail(stderrBuf)

\* C11 as stated: a worker output line that is not valid JSON never aborts the
\* orchestrator, never changes the stored result, never triggers a run command,
\* and every such line is forwarded to the console as raw text.
C11_NonJsonAlwaysForwarded ==
  [][(HandlesStdout /\ ~Head(stdoutBuf).json)
       => /\ orch' = "running"
          /\ resultRef' = resultRef
          /\ stdinRuns' = stdinRuns
          /\ console' = "raw"]_vars

\* C11 amended: a worker output line that is not valid JSON never aborts the
\* orchestrator, never changes the stored result and never triggers a run
\* command; it is forwarded to the console as raw text unless it is blank
\* (empty or white space only), in which case nothing is printed.
C11_NonJsonForwardedUnlessBlank ==
  [][(HandlesStdout /\ ~Head(stdoutBuf).json)
       => /\ orch' = "running"
          /\ resultRef' = resultRef
          /\ stdinRuns' = stdinRuns
          /\ console' = IF Head(stdoutBuf).blank THEN "none" ELSE "raw"]_vars

\* A line of plain text was handled after a result had been stored: it was
\* printed raw and the result is still there.
C11_Witness ==
  /\ lastHandled.stream = "stdout"
  /\ ~lastHandled.line.json /\ ~lastHandled.line.blank
  /\ console = "raw"
  /\ resultRef # NoData
  /\ orch = "running"

\* C12: no line of the diagnostic (stderr) stream, whatever its content, sets
\* the stored result or causes a run command to be sent.
C12_StderrIsNeverProtocol ==
  [][HandlesStderr => (resultRef' = resultRef /\ stdinRuns' = stdinRuns)]_vars

\* A well-formed result line was handled on stderr and nothing was stored.
C12_Witness ==
  /\ lastHandled.stream = "stderr"
  /\ lastHandled.line.json /\ lastHandled.line.type = "result"
  /\ lastHandled.line.data # NoData
  /\ resultRef = NoData /\ stdinRuns = 0

\* C36: of the messages the orchestrator handles only one of type result
\* changes resultRef.data, which becomes the data of that message; a ready,
\* status, log, data, error, network-captured or unknown message, a line that
\* is no message and every other step of the run leave it as it was, so that
\* an error handled after a result does not clear it, and what the end of main
\* writes to the output path is the data of the last result message handled.
C36_OnlyResultChangesTheResult ==
  [][/\ Len(stdoutBuf') < Len(stdoutBuf)
          => resultRef' = IF Head(stdoutBuf).json /\ Head(stdoutBuf).type = "result"
                          THEN Head(stdoutBuf).data
                          ELSE resultRef
     /\ Len(stdoutBuf') >= Len(stdoutBuf) => resultRef' = resultRef
     /\ outFile' # outFile => outFile' = resultRef]_vars

\* An error message was handled after a result message and the data of the
\* result has been saved.
C36_Witness ==
  /\ lastHandled.stream = "stdout" /\ lastHandled.line.type = "error"
  /\ resultRef # NoData
  /\ orch = "exited" /\ outFile = resultRef

====
